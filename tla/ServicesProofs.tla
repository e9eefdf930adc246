--------------------------- MODULE ServicesProofs ---------------------------
(***************************************************************************)
(* Proofs about each of the services on its own specification, for any     *)
(* sets of callers, tasks, signals, taps, tickets, clients, keys and users *)
(* and any limits; the last theorem carries them to Services.              *)
(***************************************************************************)
EXTENDS Services, SequenceTheorems, FiniteSetTheorems, TLAPS

-----------------------------------------------------------------------------
(* SignalApproval: an action moves one of the three counts of one signal.  *)
Undecided(i) == executed[i] + declined[i] + (IF i \in pending THEN 1 ELSE 0)

LEMMA ApprovalStarts == ApprovalInit => DecidedOncePerPush
<1> SUFFICES ASSUME ApprovalInit PROVE DecidedOncePerPush
  OBVIOUS
<1>1. tap \in [Taps -> [at : {"none", "answer", "execute", "done"},
                       id : SignalIds \cup {NoSignal}, action : {"approve", "reject"}]]
  BY DEF ApprovalInit
<1>2. /\ pushed \in [SignalIds -> Nat] /\ executed \in [SignalIds -> Nat]
      /\ declined \in [SignalIds -> Nat]
  BY DEF ApprovalInit
<1>3. ApprovalTypeOK
  BY <1>1, <1>2 DEF ApprovalInit, ApprovalTypeOK
<1>4. \A i \in SignalIds : executed[i] = 0 /\ declined[i] = 0 /\ i \notin pending /\ pushed[i] = 0
  BY DEF ApprovalInit
<1> QED BY <1>3, <1>4 DEF DecidedOncePerPush

LEMMA ApprovalTypeKeeps ==
    ApprovalTypeOK /\ [ApprovalNext]_approvalVars => ApprovalTypeOK'
<1> SUFFICES ASSUME ApprovalTypeOK, [ApprovalNext]_approvalVars PROVE ApprovalTypeOK'
  OBVIOUS
<1> USE DEF ApprovalTypeOK
<1>1. CASE ToggleSemiAuto
  BY <1>1 DEF ToggleSemiAuto
<1>2. ASSUME NEW i \in SignalIds, PushSignal(i) PROVE ApprovalTypeOK'
  BY <1>2 DEF PushSignal
<1>3. ASSUME NEW i \in SignalIds, CardSent(i) PROVE ApprovalTypeOK'
  BY <1>3 DEF CardSent
<1>4. ASSUME NEW q \in Taps, NEW i \in SignalIds, NEW a \in {"approve", "reject"},
             TapButton(q, i, a)
      PROVE  ApprovalTypeOK'
  BY <1>4 DEF TapButton
<1>5. ASSUME NEW q \in Taps, AnswerFails(q) \/ NotPending(q) \/ ReportExecuted(q)
      PROVE  ApprovalTypeOK'
  BY <1>5 DEF AnswerFails, NotPending, ReportExecuted, Move
<1>6. ASSUME NEW q \in Taps, Approve(q) PROVE ApprovalTypeOK'
  BY <1>6 DEF Approve, Move
<1>7. ASSUME NEW q \in Taps, Reject(q) PROVE ApprovalTypeOK'
  BY <1>7 DEF Reject, Move
<1>8. CASE UNCHANGED approvalVars
  BY <1>8 DEF approvalVars
<1> QED BY <1>1, <1>2, <1>3, <1>4, <1>5, <1>6, <1>7, <1>8 DEF ApprovalNext

LEMMA ApprovalCounts ==
    ASSUME DecidedOncePerPush, [ApprovalNext]_approvalVars, NEW i \in SignalIds
    PROVE  Undecided(i)' <= pushed'[i]
<1>1. /\ executed \in [SignalIds -> Nat] /\ declined \in [SignalIds -> Nat]
      /\ pushed \in [SignalIds -> Nat]
      /\ Undecided(i) <= pushed[i]
  BY DEF DecidedOncePerPush, ApprovalTypeOK, Undecided
<1>2. ASSUME UNCHANGED <<pending, pushed, executed, declined>> PROVE Undecided(i)' <= pushed'[i]
  BY <1>1, <1>2 DEF Undecided
<1>3. ASSUME NEW j \in SignalIds, PushSignal(j) PROVE Undecided(i)' <= pushed'[i]
  BY <1>1, <1>3 DEF PushSignal, Undecided
<1>4. ASSUME NEW q \in Taps, Approve(q) PROVE Undecided(i)' <= pushed'[i]
  BY <1>1, <1>4 DEF Approve, Undecided
<1>5. ASSUME NEW q \in Taps, Reject(q) PROVE Undecided(i)' <= pushed'[i]
  BY <1>1, <1>5 DEF Reject, Undecided
<1> QED
  BY <1>2, <1>3, <1>4, <1>5
     DEF ApprovalNext, approvalVars, ToggleSemiAuto, CardSent, TapButton, AnswerFails,
         NotPending, ReportExecuted

(* Whoever taps what, and however often: a push is decided at most once.   *)
THEOREM SignalDecidedOnce == ApprovalSpec => []DecidedOncePerPush
<1>1. DecidedOncePerPush /\ [ApprovalNext]_approvalVars => DecidedOncePerPush'
  <2> SUFFICES ASSUME DecidedOncePerPush, [ApprovalNext]_approvalVars PROVE DecidedOncePerPush'
    OBVIOUS
  <2>1. ApprovalTypeOK'
    BY ApprovalTypeKeeps DEF DecidedOncePerPush
  <2> QED BY <2>1, ApprovalCounts DEF DecidedOncePerPush, Undecided
<1> QED BY ApprovalStarts, <1>1, PTL DEF ApprovalSpec

-----------------------------------------------------------------------------
(* PositionReconciliation: what a run holds for a ghost was not among the  *)
(* positions it knows to have been open.                                   *)
GhostsWereClosed ==
    /\ openThen \in {mt5Tickets, {}}
    /\ phase \in {"sleep", "registry", "repair"}
    /\ phase # "sleep" => ghosts \cap openThen = {} \/ phase = "registry"
    /\ phase # "repair" => ghosts = {}

LEMMA GhostsKeep == GhostsWereClosed /\ [ReconNext]_reconVars => GhostsWereClosed'
<1> SUFFICES ASSUME GhostsWereClosed, [ReconNext]_reconVars PROVE GhostsWereClosed'
  OBVIOUS
<1> USE DEF GhostsWereClosed
<1>1. ASSUME UNCHANGED runVars PROVE GhostsWereClosed'
  BY <1>1 DEF runVars
<1>2. CASE ReadBroker
  BY <1>2 DEF ReadBroker
<1>3. CASE ReadRegistry
  BY <1>3 DEF ReadRegistry
<1>4. CASE RunEnds
  BY <1>4 DEF RunEnds
<1>5. ASSUME NEW t \in Tickets, RejectGhost(t) \/ RegisterOrphan(t) PROVE GhostsWereClosed'
  BY <1>5 DEF RejectGhost, RegisterOrphan
<1> QED
  BY <1>1, <1>2, <1>3, <1>4, <1>5
     DEF ReconNext, ReconcilerStep, Fill, RegisterFill, ClosePosition, Weather, reconVars

(* Only the repair of a ghost takes a ticket off the registry.             *)
LEMMA RejectsGhosts ==
    ASSUME GhostsWereClosed, [ReconNext]_reconVars, NEW t \in registry \ registry'
    PROVE  t \notin openThen
<1>1. PICK g \in Tickets : RejectGhost(g)
  BY DEF ReconNext, ReconcilerStep, Fill, RegisterFill, ClosePosition, Weather, reconVars,
         worldVars, ReadBroker, ReadRegistry, RunEnds, RegisterOrphan
<1> QED BY <1>1 DEF RejectGhost, GhostsWereClosed

(* The ticket of a position that was open when the run read the broker is  *)
(* never taken off the registry by that run.                               *)
THEOREM OpenNotRejected == ReconSpec => OpenIsRejectedOnlyBlind
<1>1. ReconInit => GhostsWereClosed
  BY DEF ReconInit, GhostsWereClosed
<1>2. GhostsWereClosed /\ [ReconNext]_reconVars
        => [\A t \in (registry \cap broker) \ registry' : t \notin openThen]_reconVars
  BY RejectsGhosts
<1> QED BY <1>1, <1>2, GhostsKeep, PTL DEF ReconSpec, OpenIsRejectedOnlyBlind

-----------------------------------------------------------------------------
(* TradeRecords: without a race and without a failed check, a call that is *)
(* about to insert is the only one for its signal, and finds no row.       *)
Row == [signal : Signals, status : {"open", "closed"}, pnl : Profits \cup {0}]

CallsTyped ==
    \A c \in Clients :
        /\ doing[c].at \in {"check", "insert"} => doing[c].signal \in Signals
        /\ doing[c].at = "update" => doing[c].row \in 1..Len(rows)

Alone(s) ==
    s \notin raced \cup blind =>
        /\ \A i, j \in RowsOf(s) : i = j
        /\ \A c, d \in Inserting(s) : c = d
        /\ Inserting(s) # {} => RowsOf(s) = {}

InsertsAlone == TradeTypeOK /\ CallsTyped /\ \A s \in Signals : Alone(s)

LEMMA TradeStarts == TradeInit => InsertsAlone
<1> SUFFICES ASSUME TradeInit PROVE InsertsAlone
  OBVIOUS
<1>1. Len(rows) = 0 /\ rows \in Seq(Row)
  BY EmptySeq DEF TradeInit
<1>2. \A c \in Clients : doing[c] = Nothing
  BY DEF TradeInit
<1>3. TradeTypeOK
  BY <1>1, RecordsAssumption DEF TradeInit, TradeTypeOK, Nothing, Row
<1>4. \A s \in Signals : RowsOf(s) = {} /\ Inserting(s) = {}
  BY <1>1, <1>2 DEF RowsOf, Inserting, Nothing
<1> QED BY <1>2, <1>3, <1>4 DEF InsertsAlone, Alone, CallsTyped, Nothing

(* What one client's record in doing may become without touching the rest. *)
LEMMA DoingTyped ==
    ASSUME TradeTypeOK, NEW c \in Clients, NEW f,
           f \in [at : {"idle", "check", "insert", "update"}, signal : Signals \cup {Nobody},
                  row : 0..MaxRows, pnl : Profits \cup {0}],
           doing' = [doing EXCEPT ![c] = f]
    PROVE  /\ doing' \in [Clients -> [at : {"idle", "check", "insert", "update"},
                                      signal : Signals \cup {Nobody},
                                      row : 0..MaxRows, pnl : Profits \cup {0}]]
           /\ doing'[c] = f
           /\ \A d \in Clients : d # c => doing'[d] = doing[d]
  BY DEF TradeTypeOK

LEMMA CreateKeeps ==
    ASSUME InsertsAlone, NEW c \in Clients, NEW s \in Signals, CreateTrade(c, s)
    PROVE  InsertsAlone'
<1> DEFINE f == [doing[c] EXCEPT !.at = "check", !.signal = s]
<1>1. doing[c].at = "idle" /\ doing' = [doing EXCEPT ![c] = f] /\ UNCHANGED <<rows, raced, blind>>
  BY DEF CreateTrade
<1>2. /\ f \in [at : {"idle", "check", "insert", "update"}, signal : Signals \cup {Nobody},
                row : 0..MaxRows, pnl : Profits \cup {0}]
      /\ f.at = "check" /\ f.signal = s
  BY DEF InsertsAlone, TradeTypeOK
<1>3. TradeTypeOK'
  BY <1>1, <1>2, DoingTyped DEF InsertsAlone, TradeTypeOK
<1>4. \A d \in Clients : doing'[d] = IF d = c THEN f ELSE doing[d]
  BY <1>1 DEF InsertsAlone, TradeTypeOK
<1>5. CallsTyped'
  BY <1>1, <1>2, <1>4 DEF InsertsAlone, CallsTyped
<1>6. \A r \in Signals : RowsOf(r)' = RowsOf(r) /\ Inserting(r)' = Inserting(r)
  BY <1>1, <1>2, <1>4 DEF RowsOf, Inserting
<1> QED BY <1>1, <1>3, <1>5, <1>6 DEF InsertsAlone, Alone

LEMMA CloseKeeps ==
    ASSUME InsertsAlone, NEW c \in Clients, NEW i \in 1..MaxRows, NEW p \in Profits,
           CloseTrade(c, i, p)
    PROVE  InsertsAlone'
<1> DEFINE f == [doing[c] EXCEPT !.at = "update", !.row = i, !.pnl = p]
<1>1. /\ doing[c].at = "idle" /\ i <= Len(rows)
      /\ doing' = [doing EXCEPT ![c] = f] /\ UNCHANGED <<rows, raced, blind>>
  BY DEF CloseTrade
<1>2. /\ f \in [at : {"idle", "check", "insert", "update"}, signal : Signals \cup {Nobody},
                row : 0..MaxRows, pnl : Profits \cup {0}]
      /\ f.at = "update" /\ f.row = i
  <2>1. doing[c] \in [at : {"idle", "check", "insert", "update"}, signal : Signals \cup {Nobody},
                      row : 0..MaxRows, pnl : Profits \cup {0}]
    BY DEF InsertsAlone, TradeTypeOK
  <2>2. i \in 0..MaxRows /\ p \in Profits \cup {0}
    BY RecordsAssumption
  <2> QED BY <2>1, <2>2
<1>3. TradeTypeOK'
  BY <1>1, <1>2, DoingTyped DEF InsertsAlone, TradeTypeOK
<1>4. \A d \in Clients : doing'[d] = IF d = c THEN f ELSE doing[d]
  BY <1>1 DEF InsertsAlone, TradeTypeOK
<1>5. CallsTyped'
  BY <1>1, <1>2, <1>4, LenProperties, RecordsAssumption DEF InsertsAlone, CallsTyped, TradeTypeOK
<1>6. \A r \in Signals : RowsOf(r)' = RowsOf(r) /\ Inserting(r)' = Inserting(r)
  BY <1>1, <1>2, <1>4 DEF RowsOf, Inserting
<1> QED BY <1>1, <1>3, <1>5, <1>6 DEF InsertsAlone, Alone

LEMMA NothingTyped ==
    /\ Nothing \in [at : {"idle", "check", "insert", "update"}, signal : Signals \cup {Nobody},
                    row : 0..MaxRows, pnl : Profits \cup {0}]
    /\ Nothing.at = "idle"
  BY RecordsAssumption DEF Nothing

LEMMA CheckKeeps ==
    ASSUME InsertsAlone, NEW c \in Clients, CheckIdempotency(c)
    PROVE  InsertsAlone'
<1> DEFINE f == [doing[c] EXCEPT !.at = "insert"]
<1>0. doing[c].at = "check" /\ rows' = rows
  BY DEF CheckIdempotency
<1>1. PICK s \in Signals : s = doing[c].signal
  BY <1>0 DEF InsertsAlone, CallsTyped
<1> USE <1>0
<1>2. CASE Found(s) # {} /\ Finish(c) /\ UNCHANGED <<raced, blind>>
  <2>1. doing' = [doing EXCEPT ![c] = Nothing]
    BY <1>2 DEF Finish
  <2>2. TradeTypeOK'
    BY <1>1, <1>2, <2>1, NothingTyped, DoingTyped DEF InsertsAlone, TradeTypeOK
  <2>3. \A d \in Clients : doing'[d] = IF d = c THEN Nothing ELSE doing[d]
    BY <2>1 DEF InsertsAlone, TradeTypeOK
  <2>4. CallsTyped'
    BY <1>1, <2>3, NothingTyped DEF InsertsAlone, CallsTyped
  <2>5. \A r \in Signals : RowsOf(r)' = RowsOf(r) /\ Inserting(r)' = Inserting(r)
    BY <1>1, <2>3, NothingTyped DEF RowsOf, Inserting
  <2> QED BY <1>2, <2>2, <2>4, <2>5 DEF InsertsAlone, Alone
<1>3. CASE /\ doing' = [doing EXCEPT ![c] = f]
           /\ raced' = IF Inserting(s) # {} THEN raced \cup {s} ELSE raced
           /\ \/ Found(s) = {} /\ blind' = blind
              \/ blind' = blind \cup {s}
  <2>1. /\ f \in [at : {"idle", "check", "insert", "update"}, signal : Signals \cup {Nobody},
                  row : 0..MaxRows, pnl : Profits \cup {0}]
        /\ f.at = "insert" /\ f.signal = s
    BY <1>1 DEF InsertsAlone, TradeTypeOK
  <2>2. TradeTypeOK'
    BY <1>1, <1>3, <2>1, DoingTyped DEF InsertsAlone, TradeTypeOK
  <2>3. \A d \in Clients : doing'[d] = IF d = c THEN f ELSE doing[d]
    BY <1>3 DEF InsertsAlone, TradeTypeOK
  <2>4. CallsTyped'
    BY <1>1, <2>1, <2>3 DEF InsertsAlone, CallsTyped
  <2>5. \A r \in Signals : RowsOf(r)' = RowsOf(r)
    BY <1>1 DEF RowsOf
  <2>6. \A r \in Signals : r # s => Inserting(r)' = Inserting(r)
    BY <1>1, <2>1, <2>3 DEF Inserting
  <2>7. Inserting(s)' = Inserting(s) \cup {c}
    BY <2>1, <2>3 DEF Inserting
  <2>8. Alone(s)'
    BY <1>3, <2>5, <2>7 DEF Alone, Found
  <2>9. ASSUME NEW r \in Signals, r # s PROVE Alone(r)'
    BY <1>3, <2>5, <2>6, <2>9 DEF Alone, InsertsAlone
  <2> QED BY <2>2, <2>4, <2>8, <2>9 DEF InsertsAlone
<1> QED BY <1>1, <1>2, <1>3 DEF CheckIdempotency

LEMMA InsertKeeps ==
    ASSUME InsertsAlone, NEW c \in Clients, Insert(c)
    PROVE  InsertsAlone'
<1>a. PICK s \in Signals : s = doing[c].signal
  BY DEF Insert, InsertsAlone, CallsTyped
<1> DEFINE new == [signal |-> s, status |-> "open", pnl |-> 0]
<1>0. Len(rows) \in Nat /\ rows \in Seq(Row)
  BY LenProperties DEF InsertsAlone, TradeTypeOK, Row
<1>1. /\ doing[c].at = "insert" /\ s = doing[c].signal
      /\ doing' = [doing EXCEPT ![c] = Nothing] /\ UNCHANGED <<raced, blind>>
  BY <1>a DEF Insert, Finish
<1>2. \A d \in Clients : doing'[d] = IF d = c THEN Nothing ELSE doing[d]
  BY <1>1 DEF InsertsAlone, TradeTypeOK
<1>3. \A r \in Signals : Inserting(r)' = Inserting(r) \ {c}
  BY <1>2, NothingTyped DEF Inserting
<1>4. CASE rows' = rows
  <2>1. TradeTypeOK'
    BY <1>1, <1>4, NothingTyped, DoingTyped DEF InsertsAlone, TradeTypeOK
  <2>2. CallsTyped'
    BY <1>2, <1>4, NothingTyped DEF InsertsAlone, CallsTyped
  <2>3. \A r \in Signals : RowsOf(r)' = RowsOf(r)
    BY <1>4 DEF RowsOf
  <2> QED BY <1>1, <1>3, <2>1, <2>2, <2>3 DEF InsertsAlone, Alone
<1>5. CASE Len(rows) < MaxRows /\ rows' = Append(rows, new)
  <2>1. new \in Row
    BY <1>1 DEF Row
  <2>2. /\ rows' \in Seq(Row) /\ Len(rows') = Len(rows) + 1
        /\ \A i \in 1..Len(rows) : rows'[i] = rows[i]
        /\ rows'[Len(rows) + 1] = new
    BY <1>0, <1>5, <2>1, AppendProperties
  <2>3. TradeTypeOK'
    BY <1>0, <1>1, <1>5, <2>2, NothingTyped, DoingTyped, RecordsAssumption
       DEF InsertsAlone, TradeTypeOK, Row
  <2>4. CallsTyped'
    BY <1>0, <1>2, <2>2, NothingTyped DEF InsertsAlone, CallsTyped
  <2>5. \A r \in Signals : RowsOf(r)' = RowsOf(r) \cup (IF r = s THEN {Len(rows) + 1} ELSE {})
    BY <1>0, <2>2 DEF RowsOf
  <2>6. c \in Inserting(s)
    BY <1>1 DEF Inserting
  <2>7. Alone(s)'
    BY <1>1, <1>3, <2>5, <2>6 DEF InsertsAlone, Alone
  <2>8. ASSUME NEW r \in Signals, r # s PROVE Alone(r)'
    BY <1>1, <1>3, <2>5, <2>8 DEF InsertsAlone, Alone
  <2> QED BY <2>3, <2>4, <2>7, <2>8 DEF InsertsAlone
<1> QED BY <1>a, <1>4, <1>5 DEF Insert

LEMMA UpdateKeeps ==
    ASSUME InsertsAlone, NEW c \in Clients, Update(c)
    PROVE  InsertsAlone'
<1> DEFINE n == doing[c].row
<1>0. Len(rows) \in Nat /\ rows \in Seq(Row)
  BY LenProperties DEF InsertsAlone, TradeTypeOK, Row
<1>1. /\ doing[c].at = "update" /\ n \in 1..Len(rows) /\ doing[c].pnl \in Profits \cup {0}
      /\ doing' = [doing EXCEPT ![c] = Nothing] /\ UNCHANGED <<raced, blind>>
  BY DEF Update, InsertsAlone, CallsTyped, Finish, TradeTypeOK
<1>2. \A d \in Clients : doing'[d] = IF d = c THEN Nothing ELSE doing[d]
  BY <1>1 DEF InsertsAlone, TradeTypeOK
<1>3. \A r \in Signals : Inserting(r)' = Inserting(r)
  BY <1>1, <1>2, NothingTyped DEF Inserting
<1>4. \A i \in 1..Len(rows) : rows[i] \in Row
  BY <1>0, ElementOfSeq
<1>5. /\ rows' \in Seq(Row) /\ Len(rows') = Len(rows)
      /\ \A i \in 1..Len(rows) : rows'[i].signal = rows[i].signal
  <2>1. CASE rows' = rows
    BY <1>0, <2>1
  <2>2. CASE rows' = [rows EXCEPT ![n].status = "closed", ![n].pnl = doing[c].pnl]
    <3> DEFINE closed == [[rows[n] EXCEPT !.status = "closed"] EXCEPT !.pnl = doing[c].pnl]
    <3>1. closed \in Row /\ closed.signal = rows[n].signal
      BY <1>1, <1>4 DEF Row
    <3>2. rows' = [rows EXCEPT ![n] = closed]
      BY <2>2, Zenon
    <3> HIDE DEF closed
    <3>3. rows' \in Seq(Row) /\ Len(rows') = Len(rows)
      BY <1>0, <1>1, <3>1, <3>2, ExceptSeq
    <3>4. \A i \in 1..Len(rows) : rows'[i] = IF i = n THEN closed ELSE rows[i]
      BY <1>0, <1>1, <3>2, LenProperties
    <3> QED BY <3>1, <3>3, <3>4
  <2> QED BY <2>1, <2>2 DEF Update
<1>6. TradeTypeOK'
  BY <1>0, <1>1, <1>5, NothingTyped, DoingTyped DEF InsertsAlone, TradeTypeOK, Row
<1>7. CallsTyped'
  BY <1>2, <1>5, NothingTyped DEF InsertsAlone, CallsTyped
<1>8. \A r \in Signals : RowsOf(r)' = RowsOf(r)
  BY <1>0, <1>5 DEF RowsOf
<1> QED BY <1>1, <1>3, <1>6, <1>7, <1>8 DEF InsertsAlone, Alone

LEMMA InsertsKeep == InsertsAlone /\ [TradeNext]_tradeVars => InsertsAlone'
<1> SUFFICES ASSUME InsertsAlone, [TradeNext]_tradeVars PROVE InsertsAlone'
  OBVIOUS
<1>1. CASE UNCHANGED tradeVars
  BY <1>1 DEF tradeVars, InsertsAlone, TradeTypeOK, CallsTyped, Alone, RowsOf, Inserting
<1> QED BY <1>1, CreateKeeps, CloseKeeps, CheckKeeps, InsertKeeps, UpdateKeeps DEF TradeNext

LEMMA AloneSuffices == InsertsAlone => OneRowPerSignal
<1> SUFFICES ASSUME InsertsAlone, NEW s \in Signals, s \notin raced \cup blind
             PROVE  Cardinality(RowsOf(s)) \in {0, 1}
  BY DEF InsertsAlone, OneRowPerSignal
<1>1. CASE RowsOf(s) = {}
  BY <1>1, FS_EmptySet
<1>2. CASE RowsOf(s) # {}
  <2>1. PICK i \in RowsOf(s) : TRUE
    BY <1>2
  <2>2. RowsOf(s) = {i}
    BY <2>1 DEF InsertsAlone, Alone
  <2> QED BY <2>2, FS_Singleton
<1> QED BY <1>1, <1>2

(* However calls overlap and requests fail: two rows for one signal come   *)
(* only from two calls between check and insert, or from a failed check.   *)
THEOREM RowsAreSingle == TradeSpec => []OneRowPerSignal
  BY TradeStarts, InsertsKeep, AloneSuffices, PTL DEF TradeSpec

-----------------------------------------------------------------------------
(* ReplaySession: where the loop's candle is among the frames shown, and   *)
(* that a paused loop has at most the frame it was analysing to show.      *)
Loops == {"new", "wait", "analyse", "sleep", "done"}
Modes == {"idle", "running", "paused", "finished"}

Frame == [candle : Nat, heard : Nat]

ReplayTyped ==
    /\ play \in Loops /\ mode \in Modes /\ go \in BOOLEAN /\ stopped \in BOOLEAN
    /\ candle \in Nat /\ index \in Nat /\ late \in Nat /\ frames \in Seq(Frame)

(* The candle that follows the last frame if nobody jumps.                 *)
Following == IF Len(frames) = 0 THEN 0 ELSE frames[Len(frames)].candle + 1

Placed ==
    /\ \A n \in 1..Len(frames) :
          frames[n].heard = NoJump =>
              frames[n].candle = IF n = 1 THEN 0 ELSE frames[n - 1].candle + 1
    /\ heard \in Nat /\ jump \in Nat
    /\ play = "new" => /\ index < Length /\ Len(frames) = 0 /\ mode = "idle"
                       /\ jump = NoJump => index = 0
    /\ play \in {"wait", "analyse"} => candle < Length /\ (heard = NoJump => candle = Following)
    /\ play = "sleep" => /\ candle < Length /\ Len(frames) > 0
                         /\ frames[Len(frames)].candle = candle
    /\ mode = "finished" => play = "done" /\ frames[Len(frames)].candle = Length - 1

Held ==
    mode = "paused" =>
        /\ late <= 1
        /\ ~stopped => ~go
        /\ play = "analyse" /\ ~stopped => late = 0

ReplayInv == ReplayTyped /\ Placed /\ Held

LEMMA ReplayStarts == ReplayInit => ReplayInv
<1> SUFFICES ASSUME ReplayInit PROVE ReplayInv
  OBVIOUS
<1>1. frames \in Seq(Frame) /\ Len(frames) = 0
  BY EmptySeq DEF ReplayInit
<1>2. ReplayTyped
  BY <1>1 DEF ReplayInit, ReplayTyped, Loops, Modes
<1>3. Placed
  BY <1>1, ReplayAssumption DEF ReplayInit, Placed, NoJump
<1> QED BY <1>2, <1>3 DEF ReplayInit, ReplayInv, Held

LEMMA ReplayKeeps == ReplayInv /\ [ReplayNext]_replayVars => ReplayInv'
<1> SUFFICES ASSUME ReplayInv, [ReplayNext]_replayVars PROVE ReplayInv'
  OBVIOUS
<1> USE ReplayAssumption DEF ReplayInv, ReplayTyped, Loops, Modes
<1>0. Len(frames) \in Nat /\ \A n \in 1..Len(frames) : frames[n] \in Frame
  BY LenProperties, ElementOfSeq
<1>n. NoJump = Length /\ NoJump \in Nat
  BY DEF NoJump
<1>1. CASE Begin
  <2>1. index < Length /\ index # Length /\ Len(frames) = 0 /\ (jump = NoJump => index = 0)
    BY <1>1 DEF Begin, Placed
  <2>2. /\ candle' = index /\ play' \in {"wait", "analyse"} /\ mode' = "running"
        /\ heard' = jump /\ jump' = NoJump
        /\ UNCHANGED <<index, go, stopped, frames, late>>
    BY <1>1, <2>1 DEF Begin, Top
  <2>3. heard' \in Nat /\ jump' \in Nat
    BY <1>n, <2>2 DEF Placed
  <2>4. Placed'
    BY <1>n, <2>1, <2>2, <2>3 DEF Placed, Following
  <2> QED BY <2>1, <2>2, <2>4 DEF Held
<1>2. CASE Show
  <2> DEFINE new == [candle |-> candle, heard |-> heard]
  <2>1. /\ play = "analyse" /\ ~stopped /\ frames' = Append(frames, new)
        /\ index' = candle + 1 /\ late' = late + 1 /\ play' = "sleep"
        /\ UNCHANGED <<candle, mode, go, stopped, jump, heard>>
    BY <1>2 DEF Show
  <2>2. new \in Frame /\ new.candle = candle /\ new.heard = heard
    BY DEF Frame, Placed
  <2> HIDE DEF new
  <2>3. /\ frames' \in Seq(Frame) /\ Len(frames') = Len(frames) + 1
        /\ \A n \in 1..Len(frames) : frames'[n] = frames[n]
        /\ frames'[Len(frames) + 1] = new
    BY <2>1, <2>2, AppendProperties
  <2>4. ASSUME NEW n \in 1..Len(frames'), frames'[n].heard = NoJump
        PROVE  frames'[n].candle = IF n = 1 THEN 0 ELSE frames'[n - 1].candle + 1
    <3>1. n \in 1..(Len(frames) + 1)
      BY <2>3
    <3>2. CASE n = Len(frames) + 1
      <4>1. frames'[n].candle = candle /\ candle = Following
        BY <2>1, <2>2, <2>3, <2>4, <3>2 DEF Placed
      <4>2. CASE Len(frames) = 0
        BY <3>2, <4>1, <4>2 DEF Following
      <4>3. CASE Len(frames) # 0
        <5>1. n # 1 /\ n - 1 = Len(frames) /\ Len(frames) \in 1..Len(frames)
          BY <1>0, <3>2, <4>3
        <5> QED BY <2>3, <4>1, <4>3, <5>1 DEF Following
      <4> QED BY <4>2, <4>3
    <3>3. CASE n # Len(frames) + 1
      <4>1. n \in 1..Len(frames) /\ (n # 1 => n - 1 \in 1..Len(frames))
        BY <1>0, <3>1, <3>3
      <4>2. frames[n].heard = NoJump
        BY <2>3, <2>4, <4>1
      <4> QED BY <2>3, <4>1, <4>2 DEF Placed
    <3> QED BY <3>2, <3>3
  <2>5. Placed'
    <3>1. candle < Length /\ mode # "finished" /\ heard' \in Nat /\ jump' \in Nat
      BY <2>1 DEF Placed
    <3>2. Len(frames') > 0 /\ frames'[Len(frames')].candle = candle
      BY <1>0, <2>2, <2>3
    <3> QED BY <2>1, <2>4, <3>1, <3>2 DEF Placed
  <2>6. Held'
    BY <2>1 DEF Held
  <2> QED BY <2>1, <2>3, <2>5, <2>6
<1>3. CASE Continue
  <2>1. /\ play = "sleep" /\ ~stopped /\ candle' = candle + 1
        /\ heard' = jump /\ jump' = NoJump
        /\ UNCHANGED <<index, go, stopped, frames, late>>
    BY <1>3 DEF Continue, Top
  <2>2. /\ candle < Length /\ Len(frames) > 0 /\ frames[Len(frames)].candle = candle
        /\ mode # "finished" /\ heard' \in Nat /\ jump' \in Nat
    BY <1>n, <2>1 DEF Placed
  <2>3. CASE candle + 1 = Length
    <3>1. play' = "done" /\ mode' = "finished"
      BY <1>3, <2>3 DEF Continue, Top
    <3> QED BY <1>0, <2>1, <2>2, <2>3, <3>1 DEF Placed, Held
  <2>4. CASE candle + 1 # Length
    <3>1. play' = (IF go THEN "analyse" ELSE "wait") /\ mode' = mode
      BY <1>3, <2>1, <2>4 DEF Continue, Top
    <3>2. candle' < Length /\ candle' = Following'
      BY <2>1, <2>2, <2>4 DEF Following
    <3>3. play' \in {"wait", "analyse"} /\ mode' # "finished"
      BY <2>2, <3>1
    <3>4. Placed'
      BY <2>1, <2>2, <3>2, <3>3 DEF Placed
    <3> QED BY <2>1, <3>1, <3>4 DEF Held
  <2> QED BY <2>3, <2>4
<1>4. CASE ReplayCancelled
  BY <1>4 DEF ReplayCancelled, Placed, Held
<1>5. CASE Pause
  <2>1. /\ late' = IF mode = "paused" THEN late ELSE 0
        /\ mode = "running" => mode' = "paused" /\ go' = FALSE
        /\ mode # "running" => UNCHANGED <<mode, go>>
        /\ UNCHANGED <<play, candle, index, stopped, frames, jump, heard>>
    BY <1>5 DEF Pause
  <2>2. Placed'
    BY <2>1 DEF Placed, Following
  <2>3. Held'
    BY <2>1 DEF Held
  <2> QED BY <2>1, <2>2, <2>3
<1>6. CASE Resume
  <2>1. /\ mode = "paused" => /\ mode' = "running" /\ go' = TRUE
                              /\ play' = IF play = "wait" THEN "analyse" ELSE play
        /\ mode # "paused" => UNCHANGED <<mode, go, play>>
        /\ UNCHANGED <<candle, index, stopped, frames, late, jump, heard>>
    BY <1>6 DEF Resume
  <2>2. Placed'
    BY <2>1 DEF Placed, Following
  <2>3. Held'
    BY <2>1 DEF Held
  <2> QED BY <2>1, <2>2, <2>3
<1>7. CASE StopReplay
  BY <1>7 DEF StopReplay, Placed, Held, Following
<1>8. ASSUME NEW i \in 0..(Length - 1), JumpTo(i) PROVE ReplayInv'
  BY <1>8, <1>n DEF JumpTo, Placed, Held, Following
<1>9. CASE UNCHANGED replayVars
  BY <1>9 DEF replayVars, Placed, Held, Following
<1> QED BY <1>1, <1>2, <1>3, <1>4, <1>5, <1>6, <1>7, <1>8, <1>9 DEF ReplayNext

(* For a replay of any length: a pause that took effect lets one more      *)
(* frame through, frames follow each other without a gap where nobody      *)
(* jumped, and a finished replay has shown its last candle.                *)
THEOREM ReplayFollowsControls == ReplaySpec => []FramesFollowControls
<1>1. ReplayInv => FramesFollowControls
  <2> SUFFICES ASSUME ReplayInv PROVE FramesFollowControls
    OBVIOUS
  <2>1. DOMAIN frames = 1..Len(frames)
    BY LenProperties DEF ReplayInv, ReplayTyped
  <2> QED BY <2>1 DEF ReplayInv, Placed, Held, FramesFollowControls
<1> QED BY ReplayStarts, ReplayKeeps, <1>1, PTL DEF ReplaySpec

-----------------------------------------------------------------------------
(* CircuitBreaker: half_open_calls counts every probe but the first, and   *)
(* while nothing failed every probe is inside or was counted as a success. *)
ProbesCounted ==
    /\ IsFiniteSet(inside)
    /\ state = "HALF_OPEN" =>
          /\ probes <= halfOpenCalls + 1
          /\ ~setback => /\ halfOpenCalls + 1 <= successes + Cardinality(inside)
                         /\ successes < SuccessThreshold

BreakerInv == BreakerTypeOK /\ ProbesCounted

LEMMA BreakerStarts == BreakerInit => BreakerInv
<1> SUFFICES ASSUME BreakerInit PROVE BreakerInv
  OBVIOUS
<1>1. failures \in [0..(Window - 1) -> Nat]
  BY DEF BreakerInit, NoFailures
<1>2. BreakerTypeOK
  <2>1. 0 \in 0..HalfOpenMax /\ 0 \in 0..Recovery
    BY BreakerAssumption
  <2> QED BY <1>1, <2>1 DEF BreakerInit, BreakerTypeOK
<1>3. ProbesCounted
  BY FS_EmptySet DEF BreakerInit, ProbesCounted
<1> QED BY <1>2, <1>3 DEF BreakerInv

(* A caller goes in, or comes out.                                         *)
LEMMA InsideCounted ==
    ASSUME IsFiniteSet(inside), NEW c
    PROVE  /\ Cardinality(inside) \in Nat
           /\ c \notin inside => /\ IsFiniteSet(inside \cup {c})
                                 /\ Cardinality(inside \cup {c}) = Cardinality(inside) + 1
           /\ c \in inside => /\ IsFiniteSet(inside \ {c})
                              /\ Cardinality(inside \ {c}) = Cardinality(inside) - 1
                              /\ Cardinality(inside \ {c}) \in Nat
  BY FS_AddElement, FS_RemoveElement, FS_CardinalityType

LEMMA BreakerKeeps == BreakerInv /\ [BreakerNext]_breakerVars => BreakerInv'
<1> SUFFICES ASSUME BreakerInv, [BreakerNext]_breakerVars PROVE BreakerInv'
  OBVIOUS
<1> USE BreakerAssumption DEF BreakerInv, BreakerTypeOK
<1>1. ASSUME NEW c \in Callers, EnterClosed(c) PROVE BreakerInv'
  BY <1>1, InsideCounted DEF EnterClosed, Admit, statsVars, probeVars, ProbesCounted
<1>2. ASSUME NEW c \in Callers, EnterOpen(c) PROVE BreakerInv'
  <2>1. /\ c \notin inside /\ inside' = inside \cup {c}
        /\ state' = "HALF_OPEN" /\ successes' = 0 /\ halfOpenCalls' = 0
        /\ probes' = 1 /\ setback' = FALSE /\ UNCHANGED <<failures, openFor>>
    BY <1>2 DEF EnterOpen, Admit, Transition
  <2>2. IsFiniteSet(inside') /\ Cardinality(inside') = Cardinality(inside) + 1
        /\ Cardinality(inside) \in Nat
    BY <2>1, InsideCounted DEF ProbesCounted
  <2>3. BreakerTypeOK'
    <3>1. 0 \in 0..HalfOpenMax /\ 0 \in Nat /\ 1 \in Nat
      OBVIOUS
    <3>2. halfOpenCalls' \in 0..HalfOpenMax /\ successes' \in Nat /\ probes' \in Nat
      BY <2>1, <3>1
    <3> QED BY <2>1, <3>2
  <2>4. ProbesCounted'
    BY <2>1, <2>2 DEF ProbesCounted
  <2> QED BY <2>3, <2>4
<1>3. ASSUME NEW c \in Callers, EnterHalfOpen(c) PROVE BreakerInv'
  <2>1. /\ c \notin inside /\ inside' = inside \cup {c} /\ state = "HALF_OPEN"
        /\ halfOpenCalls < HalfOpenMax /\ halfOpenCalls' = halfOpenCalls + 1
        /\ probes' = probes + 1 /\ UNCHANGED <<state, failures, successes, openFor, setback>>
    BY <1>3 DEF EnterHalfOpen, Admit
  <2>2. IsFiniteSet(inside') /\ Cardinality(inside') = Cardinality(inside) + 1
        /\ Cardinality(inside) \in Nat
    BY <2>1, InsideCounted DEF ProbesCounted
  <2>3. BreakerTypeOK'
    BY <2>1
  <2>4. ProbesCounted'
    BY <2>1, <2>2 DEF ProbesCounted
  <2> QED BY <2>3, <2>4
<1>4. ASSUME NEW c \in Callers, Succeed(c) PROVE BreakerInv'
  <2>1. /\ c \in inside /\ inside' = inside \ {c} /\ UNCHANGED <<probes, setback>>
        /\ failures' = IF state = "CLOSED" THEN NoFailures ELSE failures
    BY <1>4 DEF Succeed
  <2>2. /\ IsFiniteSet(inside') /\ Cardinality(inside') = Cardinality(inside) - 1
        /\ Cardinality(inside) \in Nat /\ Cardinality(inside') \in Nat
    BY <2>1, InsideCounted DEF ProbesCounted
  <2>3. failures' \in [0..(Window - 1) -> Nat]
    BY <2>1 DEF NoFailures
  <2>4. CASE state = "HALF_OPEN" /\ Recovered
    <3>1. state' = "CLOSED" /\ successes' = 0 /\ halfOpenCalls' = 0 /\ openFor' = openFor
      BY <1>4, <2>4 DEF Succeed, Transition
    <3> QED BY <2>1, <2>2, <2>3, <3>1 DEF ProbesCounted
  <2>5. CASE state = "HALF_OPEN" /\ ~Recovered
    <3>1. successes' = successes + 1 /\ UNCHANGED <<state, halfOpenCalls, openFor>>
      BY <1>4, <2>5 DEF Succeed
    <3>2. successes + 1 < SuccessThreshold
      BY <2>5 DEF Recovered
    <3> QED BY <2>1, <2>2, <2>3, <2>5, <3>1, <3>2 DEF ProbesCounted
  <2>6. CASE state # "HALF_OPEN"
    <3>1. UNCHANGED <<successes, state, halfOpenCalls, openFor>>
      BY <1>4, <2>6 DEF Succeed
    <3> QED BY <2>1, <2>2, <2>3, <2>6, <3>1 DEF ProbesCounted
  <2> QED BY <2>4, <2>5, <2>6
<1>5. ASSUME NEW c \in Callers, Fail(c) PROVE BreakerInv'
  <2>1. /\ c \in inside /\ inside' = inside \ {c} /\ setback' = TRUE /\ probes' = probes
        /\ failures' = [failures EXCEPT ![0] = @ + 1] /\ successes' = 0
        /\ \/ state' = "OPEN" /\ halfOpenCalls' = 0 /\ openFor' = 0
           \/ UNCHANGED <<state, halfOpenCalls, openFor>>
    BY <1>5 DEF Fail, Transition
  <2>2. IsFiniteSet(inside')
    BY <2>1, InsideCounted DEF ProbesCounted
  <2>3. failures' \in [0..(Window - 1) -> Nat]
    BY <2>1
  <2> QED BY <2>1, <2>2, <2>3 DEF ProbesCounted
<1>6. CASE Tick
  <2>1. /\ failures' = [a \in 0..(Window - 1) |-> IF a = 0 THEN 0 ELSE failures[a - 1]]
        /\ openFor' \in 0..Recovery
        /\ UNCHANGED <<state, successes, halfOpenCalls, inside, probes, setback>>
    BY <1>6 DEF Tick, probeVars
  <2>2. failures' \in [0..(Window - 1) -> Nat]
    BY <2>1
  <2> QED BY <2>1, <2>2 DEF ProbesCounted
<1>7. CASE UNCHANGED breakerVars
  BY <1>7 DEF breakerVars, statsVars, probeVars, ProbesCounted
<1> QED BY <1>1, <1>2, <1>3, <1>4, <1>5, <1>6, <1>7 DEF BreakerNext, Enter, Leave

(* For any thresholds with success_threshold at most one more than         *)
(* half_open_max_calls: a half-open breaker admits its probes and no more, *)
(* and is locked for good only after a failure.                            *)
THEOREM BreakerIsBounded == BreakerSpec => []BreakerBounded
<1>1. BreakerInv => BreakerBounded
  <2> SUFFICES ASSUME BreakerInv PROVE ProbesBounded /\ LockoutNeedsSetback
    BY DEF BreakerBounded, BreakerInv
  <2>1. inside = {} => Cardinality(inside) = 0
    BY FS_EmptySet
  <2> QED BY <2>1, BreakerAssumption
          DEF BreakerInv, BreakerTypeOK, ProbesCounted, ProbesBounded, LockoutNeedsSetback
<1> QED BY BreakerStarts, BreakerKeeps, <1>1, PTL DEF BreakerSpec

-----------------------------------------------------------------------------
(* Scheduler: unless a start() ran in the middle of a stop(), every live   *)
(* task is the handle of its job, every stop() that waits has them all     *)
(* before it, and a scheduler that is stopped has none.                    *)
LiveTasks == {i \in Tasks : at[i] # "done"}

Covered ==
    ~overlapped =>
        /\ \A i \in LiveTasks : job[i] \in Jobs /\ handle[job[i]] = i
        /\ \A s \in Stoppers : awaited[s] # None => LiveTasks \subseteq todo[s] \cup {awaited[s]}
        /\ ~running /\ (\A s \in Stoppers : awaited[s] = None) => LiveTasks = {}

SchedulerInv == SchedulerTypeOK /\ Covered

LEMMA SchedulerStarts == SchedulerInit => SchedulerInv
<1> SUFFICES ASSUME SchedulerInit PROVE SchedulerInv
  OBVIOUS
<1>1. SchedulerTypeOK
  BY SchedulerAssumption DEF SchedulerInit, SchedulerTypeOK
<1>2. LiveTasks = {}
  BY DEF SchedulerInit, LiveTasks
<1>3. Covered
  BY <1>2 DEF SchedulerInit, Covered
<1> QED BY <1>1, <1>3 DEF SchedulerInv

(* A new task for every job, when nobody waits for the end of an old one.  *)
LEMMA StartKeeps == SchedulerInv /\ Start => SchedulerInv'
<1> SUFFICES ASSUME SchedulerInv, Start PROVE SchedulerInv'
  OBVIOUS
<1> USE DEF SchedulerInv, SchedulerTypeOK
<1>1. PICK new \in [Jobs -> Free] :
         /\ ~running /\ \A j, k \in Jobs : new[j] = new[k] => j = k
         /\ running' = TRUE /\ handle' = new
         /\ job' = [i \in Tasks |-> IF \E j \in Jobs : new[j] = i
                                    THEN CHOOSE j \in Jobs : new[j] = i ELSE job[i]]
         /\ at' = [i \in Tasks |-> IF \E j \in Jobs : new[j] = i THEN "new" ELSE at[i]]
         /\ cancelled' = cancelled \ {new[j] : j \in Jobs}
         /\ overlapped' = (overlapped \/ \E s \in Stoppers : awaited[s] # None)
         /\ UNCHANGED <<todo, awaited>>
  BY DEF Start, MayStart
<1>2. \A j \in Jobs : new[j] \in Tasks
  BY DEF Free
<1>3. \A j \in Jobs : job'[new[j]] = j /\ at'[new[j]] = "new"
  BY <1>1, <1>2
<1>4. \A i \in Tasks : (\A j \in Jobs : new[j] # i) => job'[i] = job[i] /\ at'[i] = at[i]
  BY <1>1
<1>5. SchedulerTypeOK'
  <2>1. handle' \in [Jobs -> Tasks \cup {None}]
    BY <1>1, <1>2
  <2>2. job' \in [Tasks -> Jobs \cup {None}]
    <3>1. ASSUME NEW i \in Tasks PROVE job'[i] \in Jobs \cup {None}
      BY <1>3, <1>4
    <3> QED BY <1>1, <3>1
  <2>3. at' \in [Tasks -> {"new", "sleep", "job", "done"}]
    BY <1>1
  <2>4. \A i \in Tasks : job'[i] = None => at'[i] = "done"
    <3> TAKE i \in Tasks
    <3>1. CASE \E j \in Jobs : new[j] = i
      BY <1>3, <3>1, SchedulerAssumption
    <3>2. CASE \A j \in Jobs : new[j] # i
      BY <1>4, <3>2
    <3> QED BY <3>1, <3>2
  <2> QED BY <1>1, <2>1, <2>2, <2>3, <2>4
<1>6. Covered'
  <2> SUFFICES ASSUME ~overlapped'
               PROVE  \A i \in LiveTasks' : job'[i] \in Jobs /\ handle'[job'[i]] = i
    BY <1>1 DEF Covered
  <2>1. \A i \in Tasks : at[i] = "done"
    BY <1>1 DEF Covered, LiveTasks
  <2>2. \A i \in LiveTasks' : \E j \in Jobs : new[j] = i
    BY <1>4, <2>1 DEF LiveTasks
  <2> TAKE i \in LiveTasks'
  <2>3. PICK j \in Jobs : new[j] = i
    BY <2>2
  <2>4. job'[i] = j
    BY <1>3, <2>3
  <2>5. handle'[j] = i
    BY <1>1, <2>3
  <2> QED BY <2>4, <2>5
<1> QED BY <1>5, <1>6

(* stop() cancels the next of the tasks it found, or has seen the last.    *)
LEMMA GoOnKeeps ==
    ASSUME SchedulerInv, NEW s \in Stoppers, NEW rest \in SUBSET Tasks, GoOn(s, rest),
           UNCHANGED <<job, at, overlapped>>, running' \in {running, FALSE},
           ~overlapped => LiveTasks \subseteq rest
    PROVE  SchedulerInv'
<1> DEFINE remaining == {i \in rest : at[i] # "done"}
<1> USE DEF SchedulerInv, SchedulerTypeOK
<1>1. LiveTasks' = LiveTasks
  BY DEF LiveTasks
<1>2. CASE remaining = {}
  <2>1. /\ todo' = [todo EXCEPT ![s] = {}] /\ awaited' = [awaited EXCEPT ![s] = None]
        /\ handle' = [j \in Jobs |-> None] /\ cancelled' = cancelled
    BY <1>2 DEF GoOn
  <2>2. ~overlapped => LiveTasks = {}
    BY <1>2 DEF LiveTasks
  <2>3. SchedulerTypeOK'
    BY <2>1
  <2>4. Covered'
    BY <1>1, <2>2 DEF Covered
  <2> QED BY <2>3, <2>4
<1>3. CASE remaining # {}
  <2>1. PICK i \in remaining :
           /\ todo' = [todo EXCEPT ![s] = rest \ {i}] /\ awaited' = [awaited EXCEPT ![s] = i]
           /\ cancelled' = cancelled \cup {i} /\ handle' = handle
    BY <1>3 DEF GoOn, Cancel
  <2>2. i \in Tasks /\ i # None
    BY <2>1, SchedulerAssumption
  <2>3. /\ todo' \in [Stoppers -> SUBSET Tasks] /\ awaited' \in [Stoppers -> Tasks \cup {None}]
        /\ \A u \in Stoppers : /\ todo'[u] = IF u = s THEN rest \ {i} ELSE todo[u]
                               /\ awaited'[u] = IF u = s THEN i ELSE awaited[u]
    BY <2>1, <2>2
  <2>4. SchedulerTypeOK'
    BY <2>1, <2>2, <2>3
  <2>5. Covered'
    BY <1>1, <2>1, <2>2, <2>3 DEF Covered
  <2> QED BY <2>4, <2>5
<1> QED BY <1>2, <1>3

(* A task goes on or ends.                                                 *)
LEMMA TaskKeeps ==
    ASSUME SchedulerInv, NEW i \in Tasks, TaskStep(i)
    PROVE  SchedulerInv'
<1>1. PICK to \in {"new", "sleep", "job", "done"} :
         /\ at[i] # "done" /\ at' = [at EXCEPT ![i] = to]
         /\ UNCHANGED <<running, handle, job, cancelled, todo, awaited, overlapped>>
  BY DEF TaskStep, Loop, WakeUp, Step, Cancelled
<1>2. LiveTasks' \subseteq LiveTasks /\ i \in LiveTasks
  BY <1>1 DEF LiveTasks, SchedulerInv, SchedulerTypeOK
<1>3. SchedulerTypeOK'
  BY <1>1 DEF SchedulerInv, SchedulerTypeOK
<1> QED BY <1>1, <1>2, <1>3 DEF SchedulerInv, Covered

LEMMA SchedulerKeeps == SchedulerInv /\ [SchedulerNext]_schedulerVars => SchedulerInv'
<1> SUFFICES ASSUME SchedulerInv, [SchedulerNext]_schedulerVars PROVE SchedulerInv'
  OBVIOUS
<1>1. ASSUME NEW s \in Stoppers, Stop(s) PROVE SchedulerInv'
  <2>1. Handled \in SUBSET Tasks
    BY DEF Handled, SchedulerInv, SchedulerTypeOK
  <2>2. ~overlapped => LiveTasks \subseteq Handled
    BY SchedulerAssumption DEF SchedulerInv, Covered, Handled, LiveTasks
  <2> QED BY <1>1, <2>1, <2>2, GoOnKeeps DEF Stop
<1>2. ASSUME NEW s \in Stoppers, StopGoesOn(s) PROVE SchedulerInv'
  <2>1. todo[s] \in SUBSET Tasks
    BY DEF SchedulerInv, SchedulerTypeOK
  <2>2. ~overlapped => LiveTasks \subseteq todo[s]
    BY <1>2 DEF SchedulerInv, Covered, StopGoesOn, LiveTasks
  <2> QED BY <1>2, <2>1, <2>2, GoOnKeeps DEF StopGoesOn
<1>3. CASE UNCHANGED schedulerVars
  BY <1>3 DEF schedulerVars, SchedulerInv, SchedulerTypeOK, Covered, LiveTasks
<1> QED BY <1>1, <1>2, <1>3, StartKeeps, TaskKeeps DEF SchedulerNext

(* For any jobs and tasks, and however many callers of stop(): outside an  *)
(* overlap a job has one loop, the one stop() would cancel.                *)
THEOREM LoopsStayHandled == SchedulerSpec => []LoopsAreHandled
<1>1. SchedulerInv => LoopsAreHandled
  BY DEF SchedulerInv, Covered, LoopsAreHandled, Live, LiveTasks
<1> QED BY SchedulerStarts, SchedulerKeeps, <1>1, PTL DEF SchedulerSpec

-----------------------------------------------------------------------------
(* TwoLevelCache: L1 is a sequence of entries, one at most for each key.   *)
LEMMA RemoveAtFacts ==
    ASSUME NEW S, NEW s \in Seq(S), NEW i \in 1..Len(s)
    PROVE  /\ RemoveAt(s, i) \in Seq(S)
           /\ Len(RemoveAt(s, i)) = Len(s) - 1
           /\ \A j \in 1..(Len(s) - 1) :
                 RemoveAt(s, i)[j] = IF j < i THEN s[j] ELSE s[j + 1]
<1> DEFINE before == SubSeq(s, 1, i - 1)
           after == SubSeq(s, i + 1, Len(s))
<1>0. Len(s) \in Nat /\ i \in Int /\ \A j \in 1..Len(s) : s[j] \in S
  BY LenProperties, ElementOfSeq
<1>1. /\ before \in Seq(S) /\ Len(before) = i - 1
      /\ \A j \in 1..(i - 1) : before[j] = s[j]
  BY <1>0, SubSeqProperties
<1>2. /\ after \in Seq(S) /\ Len(after) = Len(s) - i
      /\ \A j \in 1..(Len(s) - i) : after[j] = s[i + j]
  BY <1>0, SubSeqProperties
<1>3. RemoveAt(s, i) = before \o after
  BY DEF RemoveAt
<1> HIDE DEF before, after
<1>4. PICK r \in Seq(S) :
         /\ r = RemoveAt(s, i) /\ Len(r) = Len(before) + Len(after)
         /\ \A j \in 1..(Len(before) + Len(after)) :
               r[j] = IF j <= Len(before) THEN before[j] ELSE after[j - Len(before)]
  <2>1. /\ before \o after \in Seq(S) /\ Len(before \o after) = Len(before) + Len(after)
        /\ \A j \in 1..(Len(before) + Len(after)) :
              (before \o after)[j] = IF j <= Len(before) THEN before[j] ELSE after[j - Len(before)]
    BY <1>1, <1>2, ConcatProperties, Zenon
  <2> QED BY <1>3, <2>1, Zenon
<1>5. ASSUME NEW j \in 1..(Len(s) - 1), j < i PROVE r[j] = s[j]
  <2>1. j \in 1..(i - 1) /\ j \in 1..(Len(before) + Len(after)) /\ j <= Len(before)
    BY <1>0, <1>1, <1>2, <1>5
  <2>2. r[j] = before[j]
    BY <1>4, <2>1, Zenon
  <2> QED BY <1>1, <2>1, <2>2
<1>6. ASSUME NEW j \in 1..(Len(s) - 1), ~(j < i) PROVE r[j] = s[j + 1]
  <2>1. /\ j - (i - 1) \in 1..(Len(s) - i) /\ i + (j - (i - 1)) = j + 1
        /\ j \in 1..(Len(before) + Len(after)) /\ ~(j <= Len(before))
    BY <1>0, <1>1, <1>2, <1>6
  <2>2. r[j] = after[j - (i - 1)]
    BY <1>1, <1>4, <2>1, Zenon
  <2>3. after[j - (i - 1)] = s[i + (j - (i - 1))]
    BY <1>2, <2>1
  <2> QED BY <2>1, <2>2, <2>3
<1>7. Len(r) = Len(s) - 1
  BY <1>0, <1>1, <1>2, <1>4
<1>8. \A j \in 1..(Len(s) - 1) : r[j] = IF j < i THEN s[j] ELSE s[j + 1]
  BY <1>5, <1>6
<1> QED BY <1>4, <1>7, <1>8

OneEach(s) == /\ s \in Seq(Entries)
              /\ \A i, j \in 1..Len(s) : s[i].key = s[j].key => i = j

LEMMA WithoutFacts ==
    ASSUME CacheTypeOK, NEW k \in Keys
    PROVE  /\ OneEach(Without(k)) /\ Len(Without(k)) <= Len(l1)
           /\ Places(k) # {} => Len(Without(k)) = Len(l1) - 1
           /\ \A n \in 1..Len(Without(k)) :
                 \E i \in 1..Len(l1) : Without(k)[n] = l1[i] /\ l1[i].key # k
<1>0. /\ l1 \in Seq(Entries) /\ Len(l1) \in Nat
      /\ \A i, j \in 1..Len(l1) : l1[i].key = l1[j].key => i = j
  BY LenProperties DEF CacheTypeOK
<1>1. CASE Places(k) = {}
  BY <1>0, <1>1 DEF Without, Places, OneEach
<1>2. CASE Places(k) # {}
  <2>1. PICK p \in 1..Len(l1) : l1[p].key = k /\ Without(k) = RemoveAt(l1, p)
    BY <1>2 DEF Without, Places
  <2>2. PICK r \in Seq(Entries) :
           /\ r = Without(k) /\ Len(r) = Len(l1) - 1
           /\ \A j \in 1..(Len(l1) - 1) : r[j] = IF j < p THEN l1[j] ELSE l1[j + 1]
    <3>1. /\ RemoveAt(l1, p) \in Seq(Entries) /\ Len(RemoveAt(l1, p)) = Len(l1) - 1
          /\ \A j \in 1..(Len(l1) - 1) :
                RemoveAt(l1, p)[j] = IF j < p THEN l1[j] ELSE l1[j + 1]
      BY <1>0, RemoveAtFacts, Zenon
    <3> QED BY <2>1, <3>1, Zenon
  <2> DEFINE from(n) == IF n < p THEN n ELSE n + 1
  <2>3. \A n \in 1..Len(r) : from(n) \in 1..Len(l1) /\ from(n) # p /\ r[n] = l1[from(n)]
    BY <1>0, <2>2
  <2>4. \A m, n \in 1..Len(r) : from(m) = from(n) => m = n
    BY <1>0, <2>2
  <2> HIDE DEF from
  <2>5. OneEach(r)
    <3> SUFFICES ASSUME NEW i \in 1..Len(r), NEW j \in 1..Len(r), r[i].key = r[j].key
                 PROVE  i = j
      BY DEF OneEach
    <3>1. l1[from(i)].key = l1[from(j)].key
      BY <2>3
    <3>2. from(i) = from(j)
      BY <1>0, <2>3, <3>1, Zenon
    <3> QED BY <2>4, <3>2, Zenon
  <2>6. \A n \in 1..Len(r) : l1[from(n)].key # k
    BY <1>0, <2>1, <2>3
  <2>7. \A n \in 1..Len(r) : \E i \in 1..Len(l1) : r[n] = l1[i] /\ l1[i].key # k
    BY <2>3, <2>6, Zenon
  <2>8. Len(r) <= Len(l1) /\ Len(r) = Len(l1) - 1
    BY <1>0, <2>2
  <2> QED BY <2>2, <2>5, <2>7, <2>8, Zenon
<1> QED BY <1>1, <1>2

(* Appending an entry of another key keeps one for each.                   *)
LEMMA AppendOneEach ==
    ASSUME NEW s, OneEach(s), NEW e \in Entries, \A n \in 1..Len(s) : s[n].key # e.key
    PROVE  /\ OneEach(Append(s, e)) /\ Len(Append(s, e)) = Len(s) + 1
           /\ \A n \in 1..Len(Append(s, e)) :
                 \/ Append(s, e)[n] = e
                 \/ n \in 1..Len(s) /\ Append(s, e)[n] = s[n]
<1>1. PICK r \in Seq(Entries) :
         /\ r = Append(s, e) /\ Len(r) = Len(s) + 1 /\ r[Len(s) + 1] = e
         /\ \A i \in 1..Len(s) : r[i] = s[i]
  <2>1. /\ Append(s, e) \in Seq(Entries) /\ Len(Append(s, e)) = Len(s) + 1
        /\ Append(s, e)[Len(s) + 1] = e
        /\ \A i \in 1..Len(s) : Append(s, e)[i] = s[i]
    BY AppendProperties DEF OneEach
  <2> QED BY <2>1, Zenon
<1>2. Len(s) \in Nat
  BY LenProperties DEF OneEach
<1>3. \A i \in 1..Len(r) : i \in 1..Len(s) \/ i = Len(s) + 1
  BY <1>1, <1>2
<1>4. ASSUME NEW i \in 1..Len(r), NEW j \in 1..Len(r), r[i].key = r[j].key PROVE i = j
  <2>1. CASE i \in 1..Len(s) /\ j \in 1..Len(s)
    BY <1>1, <1>4, <2>1 DEF OneEach
  <2>2. CASE i \in 1..Len(s) /\ j = Len(s) + 1
    BY <1>1, <1>4, <2>2
  <2>3. CASE i = Len(s) + 1 /\ j \in 1..Len(s)
    BY <1>1, <1>4, <2>3
  <2> QED BY <1>3, <2>1, <2>2, <2>3
<1> QED BY <1>1, <1>3, <1>4 DEF OneEach

(* set(): the entry is the youngest, the least recently used gives way.    *)
LEMMA StoredFacts ==
    ASSUME CacheTypeOK, NEW k \in Keys, NEW v \in Values
    PROVE  /\ OneEach(Stored(k, v)) /\ Len(Stored(k, v)) <= L1Size
           /\ \A n \in 1..Len(Stored(k, v)) :
                 \/ Stored(k, v)[n] = [key |-> k, value |-> v, age |-> 0]
                 \/ \E i \in 1..Len(l1) : Stored(k, v)[n] = l1[i] /\ l1[i].key # k
<1> DEFINE new == [key |-> k, value |-> v, age |-> 0]
           kept == Without(k)
           all == Append(kept, new)
<1>0. new \in Entries /\ new.key = k /\ L1Size \in Nat \ {0}
  BY CacheAssumption DEF Entries
<1>1. /\ OneEach(kept) /\ Len(kept) <= Len(l1)
      /\ \A n \in 1..Len(kept) : \E i \in 1..Len(l1) : kept[n] = l1[i] /\ l1[i].key # k
  BY WithoutFacts
<1>2. Stored(k, v) = IF Len(all) > L1Size THEN Tail(all) ELSE all
  BY DEF Stored
<1>2a. Len(l1) \in Nat /\ Len(l1) <= L1Size
  BY LenProperties DEF CacheTypeOK
<1> HIDE DEF new, kept
<1>3. OneEach(all)
  <2>1. \A n \in 1..Len(kept) : kept[n].key # new.key
    BY <1>0, <1>1
  <2> QED BY <1>0, <1>1, <2>1, AppendOneEach
<1>4. /\ Len(kept) \in Nat /\ all # <<>> /\ Len(all) = Len(kept) + 1 /\ all \in Seq(Entries)
      /\ \A n \in 1..Len(kept) : all[n] = kept[n]
      /\ all[Len(kept) + 1] = new
  BY <1>0, <1>1, LenProperties, AppendProperties DEF OneEach
<1> HIDE DEF all
<1>5. \A n \in 1..Len(all) : all[n] = new \/ \E i \in 1..Len(l1) : all[n] = l1[i] /\ l1[i].key # k
  <2>1. \A n \in 1..Len(all) : n \in 1..Len(kept) \/ n = Len(kept) + 1
    BY <1>4
  <2> QED BY <1>1, <1>4, <2>1
<1>6. CASE Len(all) > L1Size
  <2>1. PICK r \in Seq(Entries) :
           /\ r = Tail(all) /\ Len(r) = Len(all) - 1
           /\ \A n \in 1..Len(r) : r[n] = all[n + 1]
    <3>1. /\ Tail(all) \in Seq(Entries) /\ Len(Tail(all)) = Len(all) - 1
          /\ \A n \in 1..Len(Tail(all)) : Tail(all)[n] = all[n + 1]
      BY <1>4, HeadTailProperties
    <3> QED BY <3>1, Zenon
  <2>2. \A n \in 1..Len(r) : n + 1 \in 1..Len(all)
    BY <1>4, <2>1
  <2>3. OneEach(r)
    BY <1>3, <1>4, <2>1, <2>2 DEF OneEach
  <2>4. Len(r) <= L1Size
    BY <1>0, <1>1, <1>2a, <1>4, <2>1
  <2>5. \A n \in 1..Len(r) : r[n] = new \/ \E i \in 1..Len(l1) : r[n] = l1[i] /\ l1[i].key # k
    BY <1>5, <2>1, <2>2
  <2> QED BY <1>2, <1>6, <2>1, <2>3, <2>4, <2>5 DEF new
<1>7. CASE ~(Len(all) > L1Size)
  <2>1. Len(all) <= L1Size
    BY <1>0, <1>4, <1>7
  <2> QED BY <1>2, <1>3, <1>5, <1>7, <2>1 DEF new
<1> QED BY <1>6, <1>7

(* What a certain key owes to each place a value of it can be: L1, the     *)
(* calls on their way, and Redis.                                          *)
Writer(u) == op[u].at \in {"l2set", "l2delete"}

CertainHere(k) == \A i \in 1..Len(l1) : l1[i].key = k => l1[i].value = certain[k]

CertainCalls(k) ==
    \A u \in Users : op[u].key = k =>
        /\ op[u].at = "refill" => op[u].value = certain[k]
        /\ Writer(u) => op[u].value = certain[k] /\ Others(u, k) = {}

CertainThere(k) == \/ l2[k] \in {certain[k], Miss}
                   \/ \E u \in Users : op[u].key = k /\ Writer(u)

Certainty(k) == certain[k] # "unknown" => CertainHere(k) /\ CertainCalls(k) /\ CertainThere(k)

CacheInv == /\ CacheTypeOK
            /\ \A u \in Users : op[u].at \in {"refill", "l2set"} => op[u].value \in Values
            /\ \A k \in Keys : Certainty(k)

LEMMA IdleIsACall == Idle \in Calls /\ Idle.at = "idle"
  BY CacheAssumption DEF Idle, Calls

LEMMA CallsMove ==
    ASSUME CacheInv, NEW u \in Users, NEW f \in Calls, op' = [op EXCEPT ![u] = f]
    PROVE  op' \in [Users -> Calls] /\ \A w \in Users : op'[w] = IF w = u THEN f ELSE op[w]
  BY DEF CacheInv, CacheTypeOK

LEMMA CacheStarts == CacheInit => CacheInv
<1> SUFFICES ASSUME CacheInit PROVE CacheInv
  OBVIOUS
<1>1. l1 \in Seq(Entries) /\ Len(l1) = 0
  BY EmptySeq DEF CacheInit
<1>2. op \in [Users -> Calls] /\ \A u \in Users : op[u].at = "idle"
  BY IdleIsACall DEF CacheInit
<1>3. CacheTypeOK
  BY <1>1, <1>2, CacheAssumption DEF CacheInit, CacheTypeOK
<1>4. \A k \in Keys : certain[k] = "unknown"
  BY DEF CacheInit
<1> QED BY <1>2, <1>3, <1>4 DEF CacheInv, Certainty

(* A call on k leaves what is certain of any other key j alone.            *)
LEMMA OtherKey ==
    ASSUME CacheInv, NEW u \in Users, NEW k \in Keys, NEW j \in Keys, j # k, NEW f \in Calls,
           op' = [op EXCEPT ![u] = f], op[u].at = "idle" \/ op[u].key = k,
           f.at = "idle" \/ f.key = k,
           certain'[j] = certain[j], l2'[j] = l2[j], CertainHere(j) => CertainHere(j)'
    PROVE  Certainty(j)'
<1>1. \A w \in Users : op'[w] = IF w = u THEN f ELSE op[w]
  BY CallsMove
<1> SUFFICES ASSUME certain'[j] # "unknown"
             PROVE  CertainHere(j)' /\ CertainCalls(j)' /\ CertainThere(j)'
  BY DEF Certainty
<1>2. CertainHere(j) /\ CertainCalls(j) /\ CertainThere(j)
  BY DEF CacheInv, Certainty
<1>3. \A w \in Users : Others(w, j)' \subseteq Others(w, j)
  BY <1>1 DEF Others
<1>4. CertainCalls(j)'
  BY <1>1, <1>2, <1>3 DEF CertainCalls, Writer
<1>5. CertainThere(j)'
  BY <1>1, <1>2 DEF CertainThere, Writer
<1> QED BY <1>2, <1>4, <1>5

(* Entries of L1 that stay as they were.                                   *)
LEMMA HereKeeps ==
    ASSUME NEW j \in Keys, certain'[j] = certain[j],
           \A n \in 1..Len(l1') : \/ l1'[n].key # j
                                  \/ \E i \in 1..Len(l1) : /\ l1'[n].key = l1[i].key
                                                           /\ l1'[n].value = l1[i].value
    PROVE  CertainHere(j) => CertainHere(j)'
  BY DEF CertainHere

LEMMA HitKeeps ==
    ASSUME CacheInv, NEW u \in Users, NEW k \in Keys, GetHit(u, k)
    PROVE  CacheInv'
<1>1. PICK e \in Fresh(k) : l1' = Append(Without(k), e)
  BY DEF GetHit
<1>2. UNCHANGED <<l2, op, certain>>
  BY DEF GetHit
<1>3. /\ l1 \in Seq(Entries) /\ Len(l1) \in Nat /\ DOMAIN l1 = 1..Len(l1)
      /\ \A i \in 1..Len(l1) : l1[i] \in Entries
  BY LenProperties, ElementOfSeq DEF CacheInv, CacheTypeOK
<1>4. PICK p \in 1..Len(l1) : e = l1[p] /\ l1[p].key = k
  BY <1>1, <1>3 DEF Fresh, Entry, ToSet
<1>5. /\ OneEach(Without(k)) /\ Len(Without(k)) = Len(l1) - 1
      /\ \A n \in 1..Len(Without(k)) :
            \E i \in 1..Len(l1) : Without(k)[n] = l1[i] /\ l1[i].key # k
  BY <1>4, WithoutFacts DEF CacheInv, Places
<1>6. OneEach(l1')
  BY <1>1, <1>3, <1>4, <1>5, AppendOneEach
<1>7. /\ Len(l1') = Len(l1)
      /\ \A n \in 1..Len(l1') : \E i \in 1..Len(l1) : l1'[n] = l1[i]
  <2> DEFINE kept == Without(k)
  <2>1. /\ Len(l1') = Len(kept) + 1
        /\ \A n \in 1..Len(l1') : l1'[n] = e \/ (n \in 1..Len(kept) /\ l1'[n] = kept[n])
    <3>1. OneEach(kept) /\ e \in Entries /\ \A n \in 1..Len(kept) : kept[n].key # e.key
      BY <1>3, <1>4, <1>5
    <3> HIDE DEF kept
    <3>2. /\ Len(Append(kept, e)) = Len(kept) + 1
          /\ \A n \in 1..Len(Append(kept, e)) :
                \/ Append(kept, e)[n] = e
                \/ n \in 1..Len(kept) /\ Append(kept, e)[n] = kept[n]
      BY <3>1, AppendOneEach
    <3>3. l1' = Append(kept, e)
      BY <1>1 DEF kept
    <3> QED BY <3>2, <3>3
  <2>2. /\ Len(kept) = Len(l1) - 1
        /\ \A n \in 1..Len(kept) : \E i \in 1..Len(l1) : kept[n] = l1[i]
    BY <1>5
  <2> HIDE DEF kept
  <2> QED BY <1>3, <1>4, <2>1, <2>2
<1>8. CacheTypeOK'
  BY <1>2, <1>6, <1>7 DEF CacheInv, CacheTypeOK, OneEach
<1>9. ASSUME NEW j \in Keys PROVE Certainty(j)'
  <2>1. CertainHere(j) => CertainHere(j)'
    BY <1>2, <1>7, HereKeeps
  <2>2. CertainCalls(j)' = CertainCalls(j)
    BY <1>2 DEF CertainCalls, Writer, Others
  <2>3. CertainThere(j)' = CertainThere(j)
    BY <1>2 DEF CertainThere, Writer
  <2> QED BY <1>2, <2>1, <2>2, <2>3 DEF CacheInv, Certainty
<1> QED BY <1>2, <1>8, <1>9 DEF CacheInv

LEMMA MissKeeps ==
    ASSUME CacheInv, NEW u \in Users, NEW k \in Keys, GetMiss(u, k)
    PROVE  CacheInv'
<1> DEFINE f == [at |-> "l2get", key |-> k, value |-> Miss]
<1>1. /\ op[u].at = "idle" /\ l1' = Without(k) /\ op' = [op EXCEPT ![u] = f] /\ l2' = l2
      /\ certain' = [certain EXCEPT ![k] = IF \E w \in Others(u, k) : Writer(w)
                                           THEN "unknown" ELSE certain[k]]
  BY DEF GetMiss, Call, Blur, Writer
<1>2. f \in Calls /\ f.at = "l2get" /\ f.key = k
  BY DEF Calls
<1> HIDE DEF f
<1>3. op' \in [Users -> Calls] /\ \A w \in Users : op'[w] = IF w = u THEN f ELSE op[w]
  BY <1>1, <1>2, CallsMove
<1>4. /\ OneEach(l1') /\ Len(l1') <= Len(l1)
      /\ \A n \in 1..Len(l1') : \E i \in 1..Len(l1) : l1'[n] = l1[i]
  BY <1>1, WithoutFacts DEF CacheInv
<1>5. /\ certain' \in [Keys -> Values \cup {Miss, "unknown"}]
      /\ \A j \in Keys : j # k => certain'[j] = certain[j]
      /\ certain'[k] # "unknown" =>
            certain'[k] = certain[k] /\ \A w \in Others(u, k) : ~Writer(w)
  BY <1>1 DEF CacheInv, CacheTypeOK
<1>6. CacheTypeOK'
  <2>1. Len(l1') <= L1Size
    BY <1>4, LenProperties, CacheAssumption DEF OneEach, CacheInv, CacheTypeOK
  <2> QED BY <1>1, <1>3, <1>4, <1>5, <2>1 DEF CacheInv, CacheTypeOK, OneEach
<1>7. ASSUME NEW j \in Keys, j # k PROVE Certainty(j)'
  <2>1. CertainHere(j) => CertainHere(j)'
    BY <1>4, <1>5, <1>7, HereKeeps
  <2> QED BY <1>1, <1>2, <1>5, <1>7, <2>1, OtherKey
<1>8. Certainty(k)'
  <2> SUFFICES ASSUME certain'[k] # "unknown"
               PROVE  CertainHere(k)' /\ CertainCalls(k)' /\ CertainThere(k)'
    BY DEF Certainty
  <2>1. /\ certain'[k] = certain[k]
        /\ CertainHere(k) /\ CertainCalls(k) /\ CertainThere(k)
    BY <1>5 DEF CacheInv, Certainty
  <2>2. \A w \in Users : op[w].key = k => ~Writer(w)
    BY <1>1, <1>5 DEF Others, Writer
  <2>3. \A w \in Users : op'[w].key = k => ~Writer(w)'
    BY <1>2, <1>3, <2>2 DEF Writer
  <2>4. CertainCalls(k)'
    BY <1>2, <1>3, <2>1, <2>3 DEF CertainCalls
  <2>5. CertainHere(k)'
    BY <1>4, <2>1, HereKeeps
  <2> QED BY <1>1, <2>1, <2>2, <2>4, <2>5 DEF CertainThere
<1> QED BY <1>2, <1>3, <1>6, <1>7, <1>8 DEF CacheInv

(* Redis answers a read, or fails; the value is used some time later.      *)
LEMMA ReadKeeps ==
    ASSUME CacheInv, NEW u \in Users, RedisGets(u)
    PROVE  CacheInv'
<1>1. /\ op[u].at = "l2get" /\ op[u] \in Calls /\ op[u].key \in Keys
      /\ UNCHANGED <<l1, l2, certain>>
  BY DEF RedisGets, CacheInv, CacheTypeOK, Calls
<1>2. PICK k \in Keys : op[u].key = k
  BY <1>1
<1>3. PICK f \in Calls :
         /\ op' = [op EXCEPT ![u] = f]
         /\ \/ f.at = "idle"
            \/ f.at = "refill" /\ f.key = k /\ f.value = l2[k] /\ l2[k] # Miss
  <2>1. CASE Return(u)
    BY <2>1, IdleIsACall DEF Return
  <2>2. CASE l2[k] # Miss /\ Call(u, "refill", k, l2[k])
    <3>1. [at |-> "refill", key |-> k, value |-> l2[k]] \in Calls
      BY DEF CacheInv, CacheTypeOK, Calls
    <3> QED BY <2>2, <3>1 DEF Call
  <2> QED BY <1>2, <2>1, <2>2 DEF RedisGets
<1>4. op' \in [Users -> Calls] /\ \A w \in Users : op'[w] = IF w = u THEN f ELSE op[w]
  BY <1>3, CallsMove
<1>5. CacheTypeOK'
  BY <1>1, <1>4 DEF CacheInv, CacheTypeOK
<1>6. l2[k] # Miss => l2[k] \in Values
  BY DEF CacheInv, CacheTypeOK
<1>7. \A w \in Users : op'[w].at \in {"refill", "l2set"} => op'[w].value \in Values
  BY <1>3, <1>4, <1>6 DEF CacheInv
<1>8. \A j \in Keys : CertainHere(j)' = CertainHere(j)
  BY <1>1 DEF CertainHere
<1>9. ASSUME NEW j \in Keys, j # k PROVE Certainty(j)'
  BY <1>1, <1>2, <1>3, <1>8, <1>9, OtherKey
<1>10. Certainty(k)'
  <2> SUFFICES ASSUME certain[k] # "unknown"
               PROVE  CertainHere(k)' /\ CertainCalls(k)' /\ CertainThere(k)'
    BY <1>1 DEF Certainty
  <2>1. CertainHere(k) /\ CertainCalls(k) /\ CertainThere(k)
    BY DEF CacheInv, Certainty
  <2>2. \A w \in Users : op[w].key = k => ~Writer(w)
    <3> SUFFICES ASSUME NEW w \in Users, op[w].key = k, Writer(w) PROVE FALSE
      OBVIOUS
    <3>1. w # u /\ u \in Others(w, k)
      BY <1>1, <1>2 DEF Writer, Others
    <3> QED BY <2>1, <3>1 DEF CertainCalls
  <2>3. \A w \in Users : op'[w].key = k => ~Writer(w)'
    BY <1>3, <1>4, <2>2 DEF Writer
  <2>4. l2[k] \in {certain[k], Miss}
    BY <2>1, <2>2 DEF CertainThere
  <2>5. CertainCalls(k)'
    BY <1>1, <1>3, <1>4, <2>1, <2>3, <2>4 DEF CertainCalls
  <2> QED BY <1>1, <1>8, <2>1, <2>4, <2>5 DEF CertainThere
<1> QED BY <1>5, <1>7, <1>9, <1>10 DEF CacheInv

LEMMA RefillKeeps ==
    ASSUME CacheInv, NEW u \in Users, Refill(u)
    PROVE  CacheInv'
<1>1. op[u].at = "refill" /\ op[u] \in Calls /\ op[u].key \in Keys /\ op[u].value \in Values
  BY DEF Refill, CacheInv, CacheTypeOK, Calls
<1>2. PICK k \in Keys, v \in Values : op[u].key = k /\ op[u].value = v
  BY <1>1
<1>3. /\ l1' = Stored(k, v) /\ op' = [op EXCEPT ![u] = Idle] /\ UNCHANGED <<l2, certain>>
  BY <1>2 DEF Refill, Return
<1>4. op' \in [Users -> Calls] /\ \A w \in Users : op'[w] = IF w = u THEN Idle ELSE op[w]
  BY <1>3, IdleIsACall, CallsMove
<1>5. /\ OneEach(l1') /\ Len(l1') <= L1Size
      /\ \A n \in 1..Len(l1') :
            \/ l1'[n].key = k /\ l1'[n].value = v
            \/ \E i \in 1..Len(l1) : l1'[n] = l1[i] /\ l1[i].key # k
  <2> DEFINE new == [key |-> k, value |-> v, age |-> 0]
  <2>1. /\ OneEach(Stored(k, v)) /\ Len(Stored(k, v)) <= L1Size
        /\ \A n \in 1..Len(Stored(k, v)) :
              \/ Stored(k, v)[n] = new
              \/ \E i \in 1..Len(l1) : Stored(k, v)[n] = l1[i] /\ l1[i].key # k
    BY StoredFacts DEF CacheInv
  <2>2. new.key = k /\ new.value = v
    OBVIOUS
  <2> HIDE DEF new
  <2>3. l1' = Stored(k, v)
    BY <1>3
  <2>4. /\ OneEach(l1') /\ Len(l1') <= L1Size
        /\ \A n \in 1..Len(l1') :
              \/ l1'[n] = new
              \/ \E i \in 1..Len(l1) : l1'[n] = l1[i] /\ l1[i].key # k
    BY <2>1, <2>3, Zenon
  <2> QED BY <2>2, <2>4
<1>6. CacheTypeOK'
  BY <1>3, <1>4, <1>5 DEF CacheInv, CacheTypeOK, OneEach
<1>7. \A w \in Users : op'[w].at \in {"refill", "l2set"} => op'[w].value \in Values
  BY <1>4, IdleIsACall DEF CacheInv
<1>8. ASSUME NEW j \in Keys, j # k PROVE Certainty(j)'
  <2>1. CertainHere(j) => CertainHere(j)'
    BY <1>3, <1>5, <1>8, HereKeeps
  <2> QED BY <1>1, <1>2, <1>3, <1>8, <2>1, IdleIsACall, OtherKey
<1>9. Certainty(k)'
  <2> SUFFICES ASSUME certain[k] # "unknown"
               PROVE  CertainHere(k)' /\ CertainCalls(k)' /\ CertainThere(k)'
    BY <1>3 DEF Certainty
  <2>1. CertainHere(k) /\ CertainCalls(k) /\ CertainThere(k)
    BY DEF CacheInv, Certainty
  <2>2. v = certain[k]
    BY <1>1, <1>2, <2>1 DEF CertainCalls
  <2>3. CertainHere(k)'
    BY <1>3, <1>5, <2>2 DEF CertainHere
  <2>4. \A w \in Users : Others(w, k)' \subseteq Others(w, k)
    BY <1>4, IdleIsACall DEF Others
  <2>5. CertainCalls(k)'
    BY <1>3, <1>4, <2>1, <2>4, IdleIsACall DEF CertainCalls, Writer
  <2>6. CertainThere(k)'
    BY <1>1, <1>3, <1>4, <2>1 DEF CertainThere, Writer
  <2> QED BY <2>3, <2>5, <2>6
<1> QED BY <1>6, <1>7, <1>8, <1>9 DEF CacheInv

(* set() and delete(), once L1 is done: u's write of v is on its way.      *)
LEMMA WriteKeeps ==
    ASSUME CacheInv, NEW u \in Users, NEW k \in Keys, NEW to \in {"l2set", "l2delete"},
           NEW v \in Values \cup {Miss}, to = "l2set" => v \in Values,
           op[u].at = "idle", Call(u, to, k, v), Writes(u, k, v), l2' = l2,
           OneEach(l1'), Len(l1') <= L1Size,
           \A n \in 1..Len(l1') : \/ l1'[n].key = k /\ l1'[n].value = v
                                  \/ \E i \in 1..Len(l1) : l1'[n] = l1[i] /\ l1[i].key # k
    PROVE  CacheInv'
<1> DEFINE f == [at |-> to, key |-> k, value |-> v]
<1>1. f \in Calls /\ f.at = to /\ f.key = k /\ f.value = v
  BY DEF Calls
<1>2. op' = [op EXCEPT ![u] = f]
  BY DEF Call
<1> HIDE DEF f
<1>3. op' \in [Users -> Calls] /\ \A w \in Users : op'[w] = IF w = u THEN f ELSE op[w]
  BY <1>1, <1>2, CallsMove
<1>4. /\ certain' \in [Keys -> Values \cup {Miss, "unknown"}]
      /\ \A j \in Keys : j # k => certain'[j] = certain[j]
      /\ certain'[k] # "unknown" => certain'[k] = v /\ Others(u, k) = {}
  BY DEF Writes, CacheInv, CacheTypeOK
<1>5. CacheTypeOK'
  BY <1>3, <1>4 DEF CacheInv, CacheTypeOK, OneEach
<1>6. \A w \in Users : op'[w].at \in {"refill", "l2set"} => op'[w].value \in Values
  BY <1>1, <1>3 DEF CacheInv
<1>7. ASSUME NEW j \in Keys, j # k PROVE Certainty(j)'
  <2>1. CertainHere(j) => CertainHere(j)'
    BY <1>4, <1>7, HereKeeps
  <2> QED BY <1>1, <1>2, <1>4, <1>7, <2>1, OtherKey
<1>8. Certainty(k)'
  <2> SUFFICES ASSUME certain'[k] # "unknown"
               PROVE  CertainHere(k)' /\ CertainCalls(k)' /\ CertainThere(k)'
    BY DEF Certainty
  <2>1. certain'[k] = v /\ Others(u, k) = {}
    BY <1>4
  <2>2. CertainHere(k)'
    BY <2>1 DEF CertainHere
  <2>3. \A w \in Users : w # u /\ op'[w].key = k => op'[w].at = "idle"
    BY <1>3, <2>1 DEF Others
  <2>4. Others(u, k)' = {}
    BY <2>3 DEF Others
  <2>5. CertainCalls(k)'
    BY <1>1, <1>3, <2>1, <2>3, <2>4 DEF CertainCalls, Writer
  <2>6. CertainThere(k)'
    BY <1>1, <1>3 DEF CertainThere, Writer
  <2> QED BY <2>2, <2>5, <2>6
<1> QED BY <1>5, <1>6, <1>7, <1>8 DEF CacheInv

LEMMA SetKeeps ==
    ASSUME CacheInv, NEW u \in Users, NEW k \in Keys, NEW v \in Values, Set(u, k, v)
    PROVE  CacheInv'
<1> DEFINE new == [key |-> k, value |-> v, age |-> 0]
<1>1. /\ OneEach(Stored(k, v)) /\ Len(Stored(k, v)) <= L1Size
      /\ \A n \in 1..Len(Stored(k, v)) :
            \/ Stored(k, v)[n] = new
            \/ \E i \in 1..Len(l1) : Stored(k, v)[n] = l1[i] /\ l1[i].key # k
  BY StoredFacts DEF CacheInv
<1>2. new.key = k /\ new.value = v
  OBVIOUS
<1> HIDE DEF new
<1>3. l1' = Stored(k, v)
  BY DEF Set
<1>4. /\ OneEach(l1') /\ Len(l1') <= L1Size
      /\ \A n \in 1..Len(l1') :
            \/ l1'[n] = new
            \/ \E i \in 1..Len(l1) : l1'[n] = l1[i] /\ l1[i].key # k
  BY <1>1, <1>3, Zenon
<1>5. op[u].at = "idle" /\ Call(u, "l2set", k, v) /\ Writes(u, k, v) /\ l2' = l2
  BY DEF Set
<1>6. \A n \in 1..Len(l1') : \/ l1'[n].key = k /\ l1'[n].value = v
                             \/ \E i \in 1..Len(l1) : l1'[n] = l1[i] /\ l1[i].key # k
  BY <1>2, <1>4
<1> QED BY <1>4, <1>5, <1>6, WriteKeeps

LEMMA DeleteKeeps ==
    ASSUME CacheInv, NEW u \in Users, NEW k \in Keys, Delete(u, k)
    PROVE  CacheInv'
<1>1. l1' = Without(k)
  BY DEF Delete
<1>2. /\ OneEach(l1') /\ Len(l1') <= Len(l1)
      /\ \A n \in 1..Len(l1') : \E i \in 1..Len(l1) : l1'[n] = l1[i] /\ l1[i].key # k
  BY <1>1, WithoutFacts DEF CacheInv
<1>3. Len(l1') <= L1Size
  BY <1>2, LenProperties, CacheAssumption DEF OneEach, CacheInv, CacheTypeOK
<1>4. op[u].at = "idle" /\ Call(u, "l2delete", k, Miss) /\ Writes(u, k, Miss) /\ l2' = l2
  BY DEF Delete
<1> QED BY <1>2, <1>3, <1>4, WriteKeeps

(* Redis carries the write out, or fails and leaves the key uncertain.     *)
LEMMA LandsKeeps ==
    ASSUME CacheInv, NEW u \in Users, RedisWrites(u) \/ RedisFails(u)
    PROVE  CacheInv'
<1>1. /\ Writer(u) /\ op[u] \in Calls /\ op[u].key \in Keys
      /\ op[u].value \in Values \cup {Miss} /\ op[u].at # "refill"
      /\ op' = [op EXCEPT ![u] = Idle] /\ l1' = l1
  BY DEF RedisWrites, RedisFails, Return, Writer, CacheInv, CacheTypeOK, Calls
<1>2. PICK k \in Keys : op[u].key = k
  BY <1>1
<1>3. op' \in [Users -> Calls] /\ \A w \in Users : op'[w] = IF w = u THEN Idle ELSE op[w]
  BY <1>1, IdleIsACall, CallsMove
<1>4. /\ l2' \in [Keys -> Values \cup {Miss}]
      /\ certain' \in [Keys -> Values \cup {Miss, "unknown"}]
      /\ \A j \in Keys : j # k => l2'[j] = l2[j] /\ certain'[j] = certain[j]
      /\ \/ certain'[k] = "unknown"
         \/ certain'[k] = certain[k] /\ l2'[k] = op[u].value
  BY <1>1, <1>2 DEF RedisWrites, RedisFails, CacheInv, CacheTypeOK
<1>5. CacheTypeOK'
  BY <1>1, <1>3, <1>4 DEF CacheInv, CacheTypeOK
<1>6. \A w \in Users : op'[w].at \in {"refill", "l2set"} => op'[w].value \in Values
  BY <1>3, IdleIsACall DEF CacheInv
<1>7. ASSUME NEW j \in Keys, j # k PROVE Certainty(j)'
  <2>1. CertainHere(j)' = CertainHere(j)
    BY <1>1, <1>4, <1>7 DEF CertainHere
  <2> QED BY <1>1, <1>2, <1>4, <1>7, <2>1, IdleIsACall, OtherKey
<1>8. Certainty(k)'
  <2> SUFFICES ASSUME certain'[k] # "unknown"
               PROVE  CertainHere(k)' /\ CertainCalls(k)' /\ CertainThere(k)'
    BY DEF Certainty
  <2>1. /\ certain'[k] = certain[k] /\ l2'[k] = op[u].value
        /\ CertainHere(k) /\ CertainCalls(k)
    BY <1>4 DEF CacheInv, Certainty
  <2>2. op[u].value = certain[k]
    BY <1>1, <1>2, <2>1 DEF CertainCalls
  <2>3. \A w \in Users : Others(w, k)' \subseteq Others(w, k)
    BY <1>3, IdleIsACall DEF Others
  <2>4. CertainCalls(k)'
    BY <1>3, <2>1, <2>3, IdleIsACall DEF CertainCalls, Writer
  <2>5. CertainHere(k)'
    BY <1>1, <2>1 DEF CertainHere
  <2> QED BY <2>1, <2>2, <2>4, <2>5 DEF CertainThere
<1> QED BY <1>5, <1>6, <1>7, <1>8 DEF CacheInv

LEMMA ForgetKeeps ==
    ASSUME CacheInv, NEW k \in Keys, RedisForgets(k)
    PROVE  CacheInv'
<1>1. /\ l2' \in [Keys -> Values \cup {Miss}] /\ UNCHANGED <<l1, op, certain>>
      /\ \A j \in Keys : l2'[j] \in {l2[j], Miss}
  BY DEF RedisForgets, CacheInv, CacheTypeOK
<1>2. CacheTypeOK'
  BY <1>1 DEF CacheInv, CacheTypeOK
<1>3. ASSUME NEW j \in Keys PROVE Certainty(j)'
  <2>1. CertainHere(j)' = CertainHere(j) /\ CertainCalls(j)' = CertainCalls(j)
    BY <1>1 DEF CertainHere, CertainCalls, Writer, Others
  <2>2. CertainThere(j) => CertainThere(j)'
    BY <1>1 DEF CertainThere, Writer
  <2> QED BY <1>1, <2>1, <2>2 DEF CacheInv, Certainty
<1> QED BY <1>1, <1>2, <1>3 DEF CacheInv

LEMMA AgingKeeps == CacheInv /\ CacheTick => CacheInv'
<1> SUFFICES ASSUME CacheInv, CacheTick PROVE CacheInv'
  OBVIOUS
<1>1. /\ Len(l1) \in Nat /\ \A i \in 1..Len(l1) : l1[i] \in Entries
      /\ l1' = [i \in 1..Len(l1) |-> Aged(l1[i], L1Ttl + 1)]
      /\ UNCHANGED <<l2, op, certain>>
  BY LenProperties, ElementOfSeq DEF CacheTick, CacheInv, CacheTypeOK
<1>2. ASSUME NEW e \in Entries
      PROVE  /\ Aged(e, L1Ttl + 1) \in Entries
             /\ Aged(e, L1Ttl + 1).key = e.key /\ Aged(e, L1Ttl + 1).value = e.value
  BY CacheAssumption DEF Aged, Entries
<1>3. l1' \in Seq(Entries) /\ Len(l1') = Len(l1)
  BY <1>1, <1>2
<1>4. \A i \in 1..Len(l1) : l1'[i].key = l1[i].key /\ l1'[i].value = l1[i].value
  BY <1>1, <1>2
<1>5. CacheTypeOK'
  BY <1>1, <1>3, <1>4 DEF CacheInv, CacheTypeOK
<1>6. ASSUME NEW j \in Keys PROVE Certainty(j)'
  <2>1. CertainHere(j) => CertainHere(j)'
    BY <1>1, <1>3, <1>4 DEF CertainHere
  <2>2. CertainCalls(j)' = CertainCalls(j) /\ CertainThere(j)' = CertainThere(j)
    BY <1>1 DEF CertainCalls, CertainThere, Writer, Others
  <2> QED BY <1>1, <2>1, <2>2 DEF CacheInv, Certainty
<1> QED BY <1>1, <1>5, <1>6 DEF CacheInv

LEMMA CacheKeeps == CacheInv /\ [CacheNext]_cacheVars => CacheInv'
<1> SUFFICES ASSUME CacheInv, [CacheNext]_cacheVars PROVE CacheInv'
  OBVIOUS
<1>1. CASE UNCHANGED cacheVars
  BY <1>1 DEF cacheVars, CacheInv, CacheTypeOK, Certainty, CertainHere, CertainCalls,
              CertainThere, Writer, Others
<1> QED
  BY <1>1, HitKeeps, MissKeeps, ReadKeeps, RefillKeeps, SetKeeps, DeleteKeeps, LandsKeeps,
     ForgetKeeps, AgingKeeps
     DEF CacheNext, Answer

(* For any keys, users and size of L1: once a write that nothing on its    *)
(* key overlapped is through, neither level gives anybody an older value.  *)
THEOREM LoneWritesAreSeen == CacheSpec => []LoneWriteIsSeen
<1>1. CacheInv => LoneWriteIsSeen
  <2> SUFFICES ASSUME CacheInv PROVE LoneWriteIsSeen
    OBVIOUS
  <2>1. DOMAIN l1 = 1..Len(l1) /\ CacheTypeOK
    BY LenProperties DEF CacheInv, CacheTypeOK
  <2>2. ASSUME NEW k \in Keys, certain[k] # "unknown"
        PROVE  /\ \A e \in Entry(k) : e.value = certain[k]
               /\ \/ l2[k] \in {certain[k], Miss}
                  \/ \E u \in Users : op[u].key = k /\ op[u].at \in {"l2set", "l2delete"}
    <3>1. CertainHere(k) /\ CertainThere(k)
      BY <2>2 DEF CacheInv, Certainty
    <3>2. \A e \in Entry(k) : e.value = certain[k]
      BY <2>1, <3>1 DEF Entry, ToSet, CertainHere
    <3> QED BY <3>1, <3>2 DEF CertainThere, Writer
  <2> QED BY <2>1, <2>2 DEF LoneWriteIsSeen
<1> QED BY CacheStarts, CacheKeeps, <1>1, PTL DEF CacheSpec

-----------------------------------------------------------------------------
(* The composition: to each service a behaviour of Services is one of its  *)
(* own, in which it may also rest.                                         *)
THEOREM ServicesRunEach ==
    ServicesSpec =>
        /\ BreakerInit /\ [][BreakerNext]_breakerVars
        /\ SchedulerInit /\ [][SchedulerNext]_schedulerVars
        /\ ReconSpec /\ CacheSpec
        /\ TradeSpec /\ ApprovalSpec /\ ReplaySpec
<1>1. ServicesInit => /\ BreakerInit /\ SchedulerInit /\ ReconInit /\ CacheInit
                      /\ TradeInit /\ ApprovalInit /\ ReplayInit
  BY DEF ServicesInit
<1>2. [ServicesNext]_servicesVars =>
        /\ [BreakerNext]_breakerVars /\ [SchedulerNext]_schedulerVars /\ [ReconNext]_reconVars
        /\ [CacheNext]_cacheVars /\ [TradeNext]_tradeVars /\ [ApprovalNext]_approvalVars
        /\ [ReplayNext]_replayVars
  <2> SUFFICES ASSUME [ServicesNext]_servicesVars
               PROVE  /\ [BreakerNext]_breakerVars /\ [SchedulerNext]_schedulerVars
                      /\ [ReconNext]_reconVars /\ [CacheNext]_cacheVars /\ [TradeNext]_tradeVars
                      /\ [ApprovalNext]_approvalVars /\ [ReplayNext]_replayVars
    OBVIOUS
  <2>1. ASSUME NEW p \in Parts, Turn(p)
        PROVE  /\ p = "breaker" \/ UNCHANGED breakerVars
               /\ p = "scheduler" \/ UNCHANGED schedulerVars
               /\ p = "reconciler" \/ UNCHANGED reconVars
               /\ p = "cache" \/ UNCHANGED cacheVars
               /\ p = "trades" \/ UNCHANGED tradeVars
               /\ p = "approval" \/ UNCHANGED approvalVars
               /\ p = "replay" \/ UNCHANGED replayVars
    BY <2>1, Zenon DEF Turn
  <2>2. UNCHANGED servicesVars =>
           /\ UNCHANGED breakerVars /\ UNCHANGED schedulerVars /\ UNCHANGED reconVars
           /\ UNCHANGED cacheVars /\ UNCHANGED tradeVars /\ UNCHANGED approvalVars
           /\ UNCHANGED replayVars
    BY Zenon DEF servicesVars
  <2> QED BY <2>1, <2>2 DEF ServicesNext, Parts
<1> QED
  BY <1>1, <1>2, PTL
     DEF ServicesSpec, ReconSpec, CacheSpec, TradeSpec, ApprovalSpec, ReplaySpec

(* So the composition keeps every safety property of its parts: what the   *)
(* run of Services checks holds for any constants.                         *)
THEOREM ServicesAreSafe ==
    ServicesSpec => /\ []BreakerBounded /\ []LoopsAreHandled /\ []LoneWriteIsSeen
                    /\ []OneRowPerSignal /\ []DecidedOncePerPush /\ []FramesFollowControls
                    /\ OpenIsRejectedOnlyBlind
BY ServicesRunEach, BreakerIsBounded, LoopsStayHandled, LoneWritesAreSeen, RowsAreSingle,
   SignalDecidedOnce, ReplayFollowsControls, OpenNotRejected, PTL
   DEF BreakerSpec, SchedulerSpec
=============================================================================
