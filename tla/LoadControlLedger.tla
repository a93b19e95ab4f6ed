------------------------- MODULE LoadControlLedger -------------------------
(***************************************************************************)
(* With a single worker, LoadControl implements LimitLedger: the command   *)
(* in the worker's session is the pending one from the moment its row gets *)
(* a receive stamp until the commit that makes the row visible, and the    *)
(* active row of a key is the key's register.                              *)
(***************************************************************************)
EXTENDS LoadControl

TheWorker == CHOOSE w \in Workers : TRUE

Handling ==
  /\ job[TheWorker].kind = "distribute"
  /\ pc[TheWorker] \in {"flush", "replan", "materialize", "site", "solve",
                        "dispatch", "commit"}

(* The command being handled, or none. *)
Pending ==
  IF Handling
  THEN [active |-> job[TheWorker].command, key |-> job[TheWorker].key,
        watts |-> job[TheWorker].watts,
        duration |-> job[TheWorker].duration,
        received |-> job[TheWorker].received]
  ELSE [active |-> FALSE, key |-> "none"]

ActiveRows(rows, k) ==
  {i \in LimitIds : rows[i].status = "active" /\ rows[i].key = k}

(* The limit a ledger holds for a key. *)
Register(rows, k) ==
  IF ActiveRows(rows, k) = {}
  THEN [watts |-> 0, expires |-> 0, set |-> FALSE]
  ELSE LET i == CHOOSE i \in ActiveRows(rows, k) : TRUE
       IN [watts |-> rows[i].watts, expires |-> rows[i].expires,
           set |-> TRUE]

Limits == [k \in Keys |-> Register(db, k)]

Ledger == INSTANCE LimitLedger WITH
  now <- clock, pending <- Pending, limit <- Limits

(* Every behaviour of the single-threaded load-control path is a behaviour *)
(* of one register per key.                                                *)
LedgerSpec == Ledger!Spec
=============================================================================
