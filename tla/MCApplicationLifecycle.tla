------------------------ MODULE MCApplicationLifecycle ------------------------
(***************************************************************************)
(* Instances of ApplicationLifecycle for TLC.  Limit bounds what the       *)
(* environment does; everything the program does itself is unbounded, and  *)
(* the state space is finite because each cycle of the program uses up     *)
(* some of a budget.                                                       *)
(***************************************************************************)
EXTENDS UiStatus, TLC

CONSTANTS w1, w2, r1, r2

Replicas == Permutations(Workers) \cup Permutations(Requests)

(* The default attempts are 3 and 5; two of each keep retry and exhaustion. *)
TwoAttempts == [type \in Types |-> 2]

Budget(b) == [kind \in Kinds |-> IF kind \in DOMAIN b THEN b[kind] ELSE 0]

(* Requests against each other, the workers and recovery; nothing is lost. *)
CommandsLimit == Budget([retry |-> 1, continue |-> 2, send |-> 2, permanent |-> 1])

(* Processes die at any point, and a user retries meanwhile. *)
CrashLimit == Budget([retry |-> 1, crash |-> 1, drop |-> 1, abort |-> 1, transient |-> 1])

(* Locks run out under live workers, calls report errors after their effect, *)
(* and finished jobs expire.                                                  *)
TroubleLimit == Budget([stall |-> 1, permanent |-> 1, unclassified |-> 1,
                        fault |-> 1, expire |-> 1])

(* What the process phase recovers from. *)
ProcessLimit == Budget([crash |-> 1, drop |-> 1, transient |-> 2])

(* What the send phase recovers from. *)
SendLimit == Budget([continue |-> 1, send |-> 1, cancel |-> 1, drop |-> 1,
                     transient |-> 1, expire |-> 1])

(* At most two events each, to refute what the documents claim. *)
QuietLimit == Budget(<<>>)
OneCancel == Budget([cancel |-> 1])
TwoFailures == Budget([transient |-> 2])
OneUnclassified == Budget([unclassified |-> 1])
FailThenRetry == Budget([permanent |-> 1, retry |-> 1])
=============================================================================
