-------------------------- MODULE MCSegmentedStore --------------------------
(* Instances of SegmentedStore for TLC *)
EXTENDS SegmentedStore

Env(appends, faults, stops, outages, torn, unread) ==
    [appends |-> appends, faults |-> faults, stops |-> stops, outages |-> outages,
     torn |-> torn, unread |-> unread, media |-> "none"]

(* Operations fail and the process stops, or the power fails, or each of   *)
(* them once, and appends are whole or nothing.                            *)
Clean == {Env(5, 2, 2, 0, FALSE, FALSE), Env(5, 0, 0, 2, FALSE, FALSE),
          Env(5, 1, 1, 1, FALSE, FALSE)}

(* Appends leave parts of lines; or everything goes wrong once. *)
Harsh == {Env(6, 2, 1, 0, TRUE, FALSE), Env(5, 1, 1, 1, TRUE, TRUE)}

(* Batches bring media, each its own; or all the same, and the file system *)
(* may not be able to tell that it is there.                               *)
WithMedia(env, which) == [env EXCEPT !.media = which]
Media == {WithMedia(Env(3, 1, 1, 1, FALSE, FALSE), "own"),
          WithMedia(Env(3, 1, 0, 0, FALSE, TRUE), "same")}

Everything == Clean \cup Harsh \cup Media
=============================================================================
