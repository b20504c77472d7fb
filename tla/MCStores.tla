------------------------------ MODULE MCStores ------------------------------
(* Instances of Stores for TLC *)
EXTENDS Stores

AllPlatforms == {"posix", "windows", "freertos"}
AllKinds == {"memory", "json", "sqlite", "inmem", "json_memory", "sqlite_memory"}

(* An input, a tool step, and a step of another session whose provider     *)
(* gave its call the id of the first.                                      *)
M(i) == [kind |-> "message", id |-> i]
C(i) == [kind |-> "call", id |-> i]
R(i) == [kind |-> "result", id |-> i]

TheBatches == {"input", "step", "other"}
TheSessions == {"s1", "s2"}
TheSessionOf == [b \in TheBatches |-> IF b = "other" THEN "s2" ELSE "s1"]
TheRecords == [b \in TheBatches |->
    CASE b = "input" -> <<M(1)>>
      [] b = "step" -> <<M(2), C(1), R(1)>>
      [] OTHER -> <<M(3), C(1)>>]

TheCategoryOf == [v \in {"v1", "v2"} |-> v]
=============================================================================
