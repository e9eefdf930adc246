---------------------------- MODULE TradeRecords ----------------------------
(***************************************************************************)
(* backend/services/trade_service.py: rows of the trades table.  Every     *)
(* access to the database is an await that may fail, and a failed insert   *)
(* or update may still have been carried out.  A signal stands for the     *)
(* pair of signal_id and user_id, which every query is scoped to.          *)
(***************************************************************************)
EXTENDS Integers, Sequences, FiniteSets

CONSTANTS Signals,
          Clients,      \* tasks that call the service
          Profits,      \* pnl_usd of a close
          MaxRows,      \* bound: rows the table ever holds
          Nobody        \* no row, no signal

ASSUME RecordsAssumption == Profits \subseteq Int /\ MaxRows \in Nat

VARIABLES
    rows,       \* the table, in the order of insertion
    doing,      \* doing[c]: the call client c is in
    raced,      \* signals for which two calls were between check and insert
    blind       \* signals whose check failed and was taken for "not found"

tradeVars == <<rows, doing, raced, blind>>

Nothing == [at |-> "idle", signal |-> Nobody, row |-> 0, pnl |-> 0]

TradeTypeOK ==
    /\ rows \in Seq([signal : Signals, status : {"open", "closed"}, pnl : Profits \cup {0}])
    /\ Len(rows) <= MaxRows
    /\ doing \in [Clients -> [at : {"idle", "check", "insert", "update"}, signal : Signals \cup {Nobody},
                              row : 0..MaxRows, pnl : Profits \cup {0}]]
    /\ raced \subseteq Signals /\ blind \subseteq Signals

TradeInit == /\ rows = <<>>
             /\ doing = [c \in Clients |-> Nothing]
             /\ raced = {} /\ blind = {}

RowsOf(s)  == {i \in 1..Len(rows) : rows[i].signal = s}
Inserting(s) == {c \in Clients : doing[c].at = "insert" /\ doing[c].signal = s}
Finish(c)  == doing' = [doing EXCEPT ![c] = Nothing]
-----------------------------------------------------------------------------
(* create_trade()                                                          *)
CreateTrade(c, s) ==
    /\ doing[c].at = "idle"
    /\ doing' = [doing EXCEPT ![c].at = "check", ![c].signal = s]
    /\ UNCHANGED <<rows, raced, blind>>

\* the check looks for another user's row
MutFound(s) == {}

Found(s) == RowsOf(s)

CheckIdempotency(c) ==
    LET s == doing[c].signal
    IN  /\ doing[c].at = "check"
        /\ \/ /\ Found(s) # {}
              /\ Finish(c)
              /\ UNCHANGED <<raced, blind>>
           \/ /\ Found(s) = {}
              /\ doing' = [doing EXCEPT ![c].at = "insert"]
              /\ raced' = IF Inserting(s) # {} THEN raced \cup {s} ELSE raced
              /\ UNCHANGED blind
           \/ /\ doing' = [doing EXCEPT ![c].at = "insert"]    \* the query failed
              /\ blind' = blind \cup {s}
              /\ raced' = IF Inserting(s) # {} THEN raced \cup {s} ELSE raced
        /\ UNCHANGED rows

(* insert() returns, or raises to the caller with or without the row.      *)
Insert(c) ==
    /\ doing[c].at = "insert"
    /\ \/ /\ Len(rows) < MaxRows
          /\ rows' = Append(rows, [signal |-> doing[c].signal, status |-> "open", pnl |-> 0])
       \/ UNCHANGED rows
    /\ Finish(c)
    /\ UNCHANGED <<raced, blind>>
-----------------------------------------------------------------------------
(* close_trade(): the row is updated whatever its status.                  *)
CloseTrade(c, i, p) ==
    /\ doing[c].at = "idle"
    /\ i <= Len(rows)
    /\ doing' = [doing EXCEPT ![c].at = "update", ![c].row = i, ![c].pnl = p]
    /\ UNCHANGED <<rows, raced, blind>>

Update(c) ==
    /\ doing[c].at = "update"
    /\ \/ rows' = [rows EXCEPT ![doing[c].row].status = "closed", ![doing[c].row].pnl = doing[c].pnl]
       \/ UNCHANGED rows
    /\ Finish(c)
    /\ UNCHANGED <<raced, blind>>

TradeNext == \E c \in Clients :
                \/ \E s \in Signals : CreateTrade(c, s)
                \/ \E i \in 1..MaxRows, p \in Profits : CloseTrade(c, i, p)
                \/ CheckIdempotency(c) \/ Insert(c) \/ Update(c)

TradeSpec == TradeInit /\ [][TradeNext]_tradeVars
-----------------------------------------------------------------------------
(* A signal has two rows only if two calls were between the check and the  *)
(* insert at once, or a check failed: the check counts a failure as "no    *)
(* row" (trade_service.py:113-121, 141-159).                               *)
OneRowPerSignal ==
    /\ TradeTypeOK
    /\ \A s \in Signals : Cardinality(RowsOf(s)) > 1 => s \in raced \cup blind
=============================================================================
