---------------------------- MODULE FetchService ----------------------------
(***************************************************************************)
(* What the callers of relay.Server.Fetch are promised: a call opened for  *)
(* a URL stays open until it is answered with that URL's body or fails,    *)
(* and either way it is then over.  (A restart of the bridge breaks this   *)
(* promise: it is one of each run of the bridge.)                          *)
(***************************************************************************)
CONSTANTS Callers, Urls, NoUrl

VARIABLE call   \* the state of each caller's call, and the URL it is about

States == [st : {"closed", "open", "answered", "failed"},
           url : Urls \cup {NoUrl}]

Closed == [st |-> "closed", url |-> NoUrl]

Init == call = [c \in Callers |-> Closed]

Open(c, u) ==
    /\ call[c] = Closed
    /\ call' = [call EXCEPT ![c] = [st |-> "open", url |-> u]]

Answer(c) ==
    /\ call[c].st = "open"
    /\ call' = [call EXCEPT ![c].st = "answered"]

Fail(c) ==
    /\ call[c].st = "open"
    /\ call' = [call EXCEPT ![c].st = "failed"]

Close(c) ==
    /\ call[c].st \in {"answered", "failed"}
    /\ call' = [call EXCEPT ![c] = Closed]

Next ==
    \/ \E c \in Callers : Answer(c) \/ Fail(c) \/ Close(c)
    \/ \E c \in Callers, u \in Urls : Open(c, u)

Spec == Init /\ [][Next]_call
=============================================================================
