------------------------------ MODULE LKSession ------------------------------
(***************************************************************************)
(* What lkws promises to each client, whatever the other clients do and     *)
(* whatever descriptors, contexts and ready sets are behind it: one reply,  *)
(* whole and in order, and then the end of the connection.                  *)
(*                                                                          *)
(* A reply is a sequence of parts <<c, part>>, where c is the connection it *)
(* was made for.                                                            *)
(***************************************************************************)
EXTENDS Sequences, SequencesExt

CONSTANT Conns

VARIABLES
    conn,      \* state of each connection
    lost,      \* the clients that went away before their session was over
    broken,    \* the connections whose upstream broke off
    sent       \* the parts sent to each client

vars == <<conn, lost, broken, sent>>

\* The server's own reply (file, CGI output or error message), a forwarded
\* one, and an error message after a part of a forwarded one, which needs an
\* upstream that broke off.
Own(c)       == << <<c, "head">>, <<c, "body">> >>
Forwarded(c) == << <<c, "forwarded">>, <<c, "forwarded all">> >>
Broken(c)    == << <<c, "forwarded">> >> \o Own(c)

Replies(c) == {Own(c), Forwarded(c), <<Last(Forwarded(c))>>}
              \cup (IF c \in broken \cup lost THEN {Broken(c)} ELSE {})

Init ==
    /\ conn = [c \in Conns |-> "new"]
    /\ lost = {} /\ broken = {}
    /\ sent = [c \in Conns |-> << >>]

Connect(c) ==
    /\ conn[c] \in {"new", "closed"}
    /\ conn' = [conn EXCEPT ![c] = "queued"]
    /\ sent' = [sent EXCEPT ![c] = << >>]
    /\ lost' = lost \ {c} /\ broken' = broken \ {c}

Accept(c) ==
    /\ conn[c] = "queued"
    /\ conn' = [conn EXCEPT ![c] = "open"]
    /\ UNCHANGED <<lost, broken, sent>>

Lose(c) ==
    /\ conn[c] \in {"queued", "open"}
    /\ lost' = lost \cup {c}
    /\ UNCHANGED <<conn, broken, sent>>

Break(c) ==
    /\ conn[c] = "open"
    /\ broken' = broken \cup {c}
    /\ UNCHANGED <<conn, lost, sent>>

\* One or more parts are sent, always towards a whole reply.
Send(c) ==
    /\ conn[c] = "open"
    /\ \E reply \in Replies(c) : \E n \in 1 .. Len(reply) :
          sent' = [sent EXCEPT ![c] = SubSeq(reply, 1, n)]
    /\ IsStrictPrefix(sent[c], sent'[c])
    /\ UNCHANGED <<conn, lost, broken>>

\* The session ends, with the last part of the reply or after it.  Only a
\* client that went away does without the rest.
Close(c) ==
    /\ conn[c] = "open"
    /\ conn' = [conn EXCEPT ![c] = "closed"]
    /\ \/ /\ \E reply \in Replies(c) : sent' = [sent EXCEPT ![c] = reply]
          /\ IsPrefix(sent[c], sent'[c])
       \/ c \in lost /\ UNCHANGED sent
    /\ UNCHANGED <<lost, broken>>

Next == \E c \in Conns :
           \/ Connect(c) \/ Accept(c) \/ Lose(c) \/ Break(c)
           \/ Send(c) \/ Close(c)

Spec == Init /\ [][Next]_vars
=============================================================================
