----------------------------- MODULE HttpService -----------------------------
(***************************************************************************)
(* What the server process promises about HTTP, without signals, phases,   *)
(* terminals or clocks: it starts or gives up, it serves, it drains what   *)
(* it accepted, and it ends.  A request that was accepted is answered      *)
(* unless the drain was forced or the process failed, and an end that is   *)
(* reported clean lost none.                                               *)
(***************************************************************************)
CONSTANTS Connection

VARIABLES
    stage,   \* "starting", "serving", "draining", "closing" or "gone"
    ending,  \* how the process ended: "none", "clean", "forced" or "failed"
    open,    \* requests accepted and not yet answered
    cut      \* requests that will never be answered

vars == <<stage, ending, open, cut>>

Init == stage = "starting" /\ ending = "none" /\ open = {} /\ cut = {}

Move(from, to) == stage = from /\ stage' = to /\ UNCHANGED <<ending, open, cut>>

Accept(c) ==
    /\ stage = "serving" /\ c \notin open \cup cut
    /\ open' = open \cup {c}
    /\ UNCHANGED <<stage, ending, cut>>

Answer(c) ==
    /\ stage # "gone" /\ c \in open
    /\ open' = open \ {c}
    /\ UNCHANGED <<stage, ending, cut>>

\* What is still open when the drain is forced is cut.
CutOff ==
    /\ stage = "closing"
    /\ cut' = cut \cup open /\ open' = {}
    /\ UNCHANGED <<stage, ending>>

End ==
    /\ stage # "gone" /\ stage' = "gone"
    /\ \/ ending' = "clean" /\ stage \in {"starting", "draining"} /\ open = {} /\ cut = {}
       \/ ending' = "forced" /\ stage = "closing"
       \/ ending' = "failed"
    /\ cut' = cut \cup open /\ open' = {}

Next ==
    \/ Move("starting", "serving") \/ Move("serving", "draining") \/ Move("draining", "closing")
    \/ \E c \in Connection : Accept(c) \/ Answer(c)
    \/ CutOff \/ End

Spec == Init /\ [][Next]_vars

=============================================================================
