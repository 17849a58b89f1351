-------------------------- MODULE MCEntryLifecycle --------------------------
(* Small instances of EntryLifecycle.                                      *)
EXTENDS EntryLifecycle, TLC

CONSTANTS o1, s1, d1, w1, w2

(* One dispatch with its order; a dispatcher that serves it.               *)
MCOneSymbol == o1 :> s1
MCOneMargin == o1 :> 1
MCOneOid    == d1 :> o1
MCOneServes == w1 :> {d1}

(* A dispatcher that only recovers beside a console worker with a trade.   *)
MCConsoleOnly == w1 :> {} @@ w2 :> {d1}
=============================================================================
