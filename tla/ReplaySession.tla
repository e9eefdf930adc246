--------------------------- MODULE ReplaySession ---------------------------
(***************************************************************************)
(* backend/research/replay: one session, whose task plays the candles      *)
(* while pause(), resume(), stop() and jump_to() arrive between two of its *)
(* awaits.  The task gives way where it waits for the pause event, for the *)
(* signal generator, and after a frame.                                    *)
(***************************************************************************)
EXTENDS Integers, Sequences

CONSTANT Length         \* candles of the replay

ASSUME ReplayAssumption == Length \in Nat \ {0}

VARIABLES
    play,       \* where the task is: "new", "wait", "analyse", "sleep", "done"
    candle,     \* i, the loop's candle
    index,      \* state.current_index
    mode,       \* state.status
    go,         \* _pause_event
    stopped,    \* _stop_event, and the task's cancellation with it
    frames,     \* the frames shown, each with the jump the loop had heard of
    late,       \* those shown since the last pause()
    jump,       \* jump_to() since the loop took its candle, or NoJump
    heard       \* the one before that, between the last two candles

replayVars == <<play, candle, index, mode, go, stopped, frames, late, jump, heard>>

NoJump == Length        \* an index jump_to() refuses

(* ReplaySession.start: load(), then create_task(play()).                  *)
ReplayInit == /\ play = "new" /\ candle = 0 /\ index = 0
              /\ mode = "idle" /\ go = TRUE /\ stopped = FALSE
              /\ frames = <<>> /\ late = 0
              /\ jump = NoJump /\ heard = NoJump

(* A mutant: the loop does not wait for the pause event.                   *)
MutTop(i) == /\ candle' = i
             /\ heard' = jump /\ jump' = NoJump
             /\ IF i = Length
                THEN play' = "done" /\ mode' = "finished"
                ELSE /\ play' = "analyse"
                     /\ mode' = IF play = "new" THEN "running" ELSE mode

(* The top of the loop for candle i: past the last one the replay is over. *)
Top(i) == /\ candle' = i
          /\ heard' = jump /\ jump' = NoJump
          /\ IF i = Length
             THEN play' = "done" /\ mode' = "finished"
             ELSE /\ play' = IF go THEN "analyse" ELSE "wait"
                  /\ mode' = IF play = "new" THEN "running" ELSE mode

(* play() up to the first await.  A task cancelled before never begins.    *)
Begin == /\ play = "new" /\ ~stopped
         /\ Top(index)
         /\ UNCHANGED <<index, go, stopped, frames, late>>

(* The generator has answered: the frame is made, recorded and sent.       *)
Show == /\ play = "analyse" /\ ~stopped
        /\ frames' = Append(frames, [candle |-> candle, heard |-> heard])
        /\ index' = candle + 1
        /\ late' = late + 1
        /\ play' = "sleep"
        /\ UNCHANGED <<candle, mode, go, stopped, jump, heard>>

Continue == /\ play = "sleep" /\ ~stopped
            /\ Top(candle + 1)
            /\ UNCHANGED <<index, go, stopped, frames, late>>

(* CancelledError at the await; no status is written.                      *)
ReplayCancelled ==
    /\ play # "done" /\ stopped
    /\ play' = "done"
    /\ UNCHANGED <<candle, index, mode, go, stopped, frames, late, jump, heard>>
-----------------------------------------------------------------------------
(* Anything but a running replay is not paused: a call before the task's   *)
(* first step is forgotten, for play() then sets RUNNING.                  *)
Pause == /\ late' = IF mode = "paused" THEN late ELSE 0
         /\ IF mode = "running" THEN mode' = "paused" /\ go' = FALSE
                                ELSE UNCHANGED <<mode, go>>
         /\ UNCHANGED <<play, candle, index, stopped, frames, jump, heard>>

(* The event wakes a waiting task even if it is cleared again at once.     *)
Resume == /\ IF mode = "paused"
             THEN /\ mode' = "running" /\ go' = TRUE
                  /\ play' = IF play = "wait" THEN "analyse" ELSE play
             ELSE UNCHANGED <<mode, go, play>>
          /\ UNCHANGED <<candle, index, stopped, frames, late, jump, heard>>

StopReplay ==
    /\ ~stopped
    /\ stopped' = TRUE /\ go' = TRUE
    /\ UNCHANGED <<play, candle, index, mode, frames, late, jump, heard>>

(* jump_to: only current_index, which the running loop does not read.      *)
JumpTo(i) == /\ index' = i
             /\ jump' = i
             /\ UNCHANGED <<play, candle, mode, go, stopped, frames, late, heard>>

ReplayNext == \/ Begin \/ Show \/ Continue \/ ReplayCancelled
              \/ Pause \/ Resume \/ StopReplay
              \/ \E i \in 0..(Length - 1) : JumpTo(i)

ReplaySpec == ReplayInit /\ [][ReplayNext]_replayVars
-----------------------------------------------------------------------------
(* While a replay is paused at most one more frame appears, the one that   *)
(* was being analysed (engine.py:261 waits only before a candle); where no *)
(* jump was made the frames are the candles in order, from the first on    *)
(* and without a gap, whatever pauses come in between; and a finished      *)
(* replay has shown its last candle.                                       *)
FramesFollowControls ==
    /\ mode = "paused" => late <= 1
    /\ \A n \in DOMAIN frames :
          frames[n].heard = NoJump =>
              frames[n].candle = IF n = 1 THEN 0 ELSE frames[n - 1].candle + 1
    /\ mode = "finished" => frames[Len(frames)].candle = Length - 1

-----------------------------------------------------------------------------
(* A statement of the repository the code does not meet.                   *)

(* jump_to(), lines 356-362, "jump to a given index": the candle the loop  *)
(* takes next is the one the user jumped to.                               *)
JumpTakesEffect ==
    \A n \in DOMAIN frames :
        frames[n].heard # NoJump => frames[n].candle = frames[n].heard
=============================================================================
