------------------------------- MODULE Session -------------------------------
(***************************************************************************)
(* The audio session of oxisound-session, as the facade calls it: the      *)
(* category of the session, set under a lock, and the permission to record *)
(* that threads of the application ask the user for and wait for.          *)
(*                                                                         *)
(* Platform and features select the code that is compiled.  What the       *)
(* system does with a request, and the user's decision, are the            *)
(* environment's; a decision once made is kept.                            *)
(***************************************************************************)
EXTENDS Naturals, Sequences

CONSTANTS
    Callers,      \* threads of the application
    Categories,   \* the categories they set
    Builds,       \* [os: "ios", "macos" or "other", session, avf: BOOLEAN], the features compiled in
    MaxRequests   \* bound: requests made

VARIABLES
    build,
    permission,   \* what the user has decided: "undetermined", "granted" or "denied"
    category,     \* of AVAudioSession, "none" at first
    lock,         \* who holds LOCK, or "free"
    at,           \* [Callers -> "idle", "configure" or "wait"]
    asked,        \* [Callers -> the request the thread waits for]
    requests,     \* the completion blocks: their result and done cells, and how far each is
    answer        \* [Callers -> what its last call returned]

vars == <<build, permission, category, lock, at, asked, requests, answer>>

Init ==
    /\ build \in Builds
    /\ permission \in {"undetermined", "granted", "denied"}
    /\ category = "none" /\ lock = "free"
    /\ at = [c \in Callers |-> "idle"] /\ asked = [c \in Callers |-> 0]
    /\ requests = <<>> /\ answer = [c \in Callers |-> "none"]

\* The Apple frameworks are called only with both features.
Real == build.os # "other" /\ build.session /\ build.avf

Return(c, value) ==
    /\ answer' = [answer EXCEPT ![c] = value] /\ at' = [at EXCEPT ![c] = "idle"]

-----------------------------------------------------------------------------
(* configure_session() *)

\* Without the frameworks: nothing to do on a desktop, not supported elsewhere.
ConfigureStub(c) ==
    /\ at[c] = "idle" /\ ~Real
    /\ Return(c, IF build.os = "macos" THEN "ok" ELSE "unsupported config")
    /\ UNCHANGED <<build, permission, category, lock, asked, requests>>

ConfigureLock(c) ==
    /\ at[c] = "idle" /\ Real /\ lock = "free"
    /\ lock' = c /\ at' = [at EXCEPT ![c] = "configure"]
    /\ UNCHANGED <<build, permission, category, asked, requests, answer>>

\* setCategory:error:, which may fail, and the lock released.
ConfigureSet(c, value) ==
    /\ at[c] = "configure" /\ lock' = "free"
    /\ \/ category' = value /\ Return(c, "ok")
       \/ category' = category /\ Return(c, "format mismatch")
    /\ UNCHANGED <<build, permission, asked, requests>>

-----------------------------------------------------------------------------
(* request_microphone_permission() *)

\* Without the frameworks: assumed on a desktop, refused elsewhere.
Assumed == IF build.os = "macos" THEN "granted" ELSE "permission denied"

RequestStub(c) ==
    /\ at[c] = "idle" /\ ~Real
    /\ Return(c, Assumed)
    /\ UNCHANGED <<build, permission, category, lock, asked, requests>>

\* recordPermission, and a request with cells of its own where there is no decision yet.
Request(c) ==
    /\ at[c] = "idle" /\ Real
    /\ IF permission # "undetermined"
       THEN Return(c, permission) /\ UNCHANGED <<asked, requests>>
       ELSE /\ Len(requests) < MaxRequests
            /\ requests' = Append(requests, [result |-> "pending", done |-> FALSE, state |-> "asked"])
            /\ asked' = [asked EXCEPT ![c] = Len(requests')] /\ at' = [at EXCEPT ![c] = "wait"]
            /\ UNCHANGED answer
    /\ UNCHANGED <<build, permission, category, lock>>

\* The user answers the prompt, or the system has decided.
Decide ==
    /\ permission = "undetermined" /\ permission' \in {"granted", "denied"}
    /\ UNCHANGED <<build, category, lock, at, asked, requests, answer>>

\* Mutant: the block raises the flag before it stores the result.
BlockStepFlagFirst(i) ==
    /\ \/ /\ requests[i].state = "asked" /\ permission # "undetermined"
          /\ requests' = [requests EXCEPT ![i].done = TRUE, ![i].state = "stored"]
       \/ /\ requests[i].state = "stored"
          /\ requests' = [requests EXCEPT ![i].result = permission, ![i].state = "called"]
    /\ UNCHANGED <<build, permission, category, lock, at, asked, answer>>

\* The completion block, called once on a thread of the system, whoever still waits: it
\* stores the result and then raises the flag.
BlockStep(i) ==
    /\ \/ /\ requests[i].state = "asked" /\ permission # "undetermined"
          /\ requests' = [requests EXCEPT ![i].result = permission, ![i].state = "stored"]
       \/ /\ requests[i].state = "stored"
          /\ requests' = [requests EXCEPT ![i].done = TRUE, ![i].state = "called"]
    /\ UNCHANGED <<build, permission, category, lock, at, asked, answer>>

\* The flag is seen: anything but a grant is a denial.
WaitEnds(c) ==
    /\ at[c] = "wait" /\ requests[asked[c]].done
    /\ Return(c, IF requests[asked[c]].result = "granted" THEN "granted" ELSE "denied")
    /\ UNCHANGED <<build, permission, category, lock, asked, requests>>

\* Thirty seconds have passed.
WaitTimesOut(c) ==
    /\ at[c] = "wait" /\ ~requests[asked[c]].done
    /\ Return(c, "timeout")
    /\ UNCHANGED <<build, permission, category, lock, asked, requests>>

Next ==
    \/ \E c \in Callers :
          \/ ConfigureStub(c) \/ ConfigureLock(c) \/ (\E value \in Categories : ConfigureSet(c, value))
          \/ RequestStub(c) \/ Request(c) \/ WaitEnds(c) \/ WaitTimesOut(c)
    \/ \E i \in DOMAIN requests : BlockStep(i)
    \/ Decide

Spec == Init /\ [][Next]_vars

-----------------------------------------------------------------------------
(* Properties. *)

\* Where the system is asked, what a thread is told of the permission is what the user
\* decided, however the block's two stores, the threads' waits and their timeouts
\* interleave: a grant is never told as a denial.
AnswerIsTheUsers ==
    \A c \in Callers :
        (Real /\ answer[c] \in {"granted", "denied"}) => answer[c] = permission
=============================================================================
