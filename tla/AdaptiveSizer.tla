--------------------------- MODULE AdaptiveSizer ---------------------------
(***************************************************************************)
(* The size policy both connection pools share (core/db/pool/adaptive.py). *)
(* A sizer is a record: `current` is the number of connections the pool    *)
(* may open now, `streak` the number of observations in a row without      *)
(* pressure.  `streak` is only compared with CooldownChecks, so a sizer    *)
(* that counts no further than CooldownChecks behaves as the code does.    *)
(***************************************************************************)
EXTENDS Naturals

CONSTANTS MinConn, MaxConn, CooldownChecks

ASSUME SizerAssumption ==
    /\ MinConn \in Nat \ {0}
    /\ MaxConn \in Nat
    /\ MinConn <= MaxConn
    /\ CooldownChecks \in Nat \ {0}

Sizers == [current : MinConn .. MaxConn, streak : 0 .. CooldownChecks]

InitialSizer == [current |-> MinConn, streak |-> 0]

AtMost(n, bound) == IF n <= bound THEN n ELSE bound

Grown(s) ==
    [current |-> AtMost(s.current + 1, MaxConn), streak |-> 0]

(* Mutant: the floor is forgotten. *)
RestedNoFloor(s) ==
    IF s.streak + 1 >= CooldownChecks
    THEN [current |-> s.current - 1, streak |-> 0]
    ELSE [s EXCEPT !.streak = AtMost(s.streak + 1, CooldownChecks)]

Rested(s) ==
    IF s.streak + 1 >= CooldownChecks /\ s.current > MinConn
    THEN [current |-> s.current - 1, streak |-> 0]
    ELSE [s EXCEPT !.streak = AtMost(s.streak + 1, CooldownChecks)]

Adjusted(s, underPressure) == IF underPressure THEN Grown(s) ELSE Rested(s)

(* warmup_async()/warmup_sync() raise the size directly and leave it there. *)
Warmed(s, target) ==
    [s EXCEPT !.current = IF s.current >= target THEN s.current ELSE target]
=============================================================================
