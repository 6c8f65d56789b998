------------------------------- MODULE WsHub -------------------------------
(***************************************************************************)
(* The WebSocket server (wsserver/wsserver.go): browsers connect,          *)
(* authenticate and subscribe to channels; the goroutines of runs          *)
(* broadcast frames to the subscribers of a channel.  Every client has a   *)
(* reader, which handles its messages, a bounded queue and a writer, which *)
(* sends what is queued.                                                   *)
(*                                                                         *)
(* A Broadcast holds the read lock of the table of clients from its first  *)
(* client to its last; clients enter and leave the table under the write   *)
(* lock.                                                                   *)
(***************************************************************************)
EXTENDS Naturals, Sequences, FiniteSets

CONSTANTS
  Clients,     \* connections; one that is closed is not opened again
  Channels,
  Publishers,  \* goroutines that broadcast, each its frames one by one
  MaxFrames,   \* broadcast in all
  SendQueue    \* frames that may wait for a slow client: sendQueue

ASSUME WsAssumption == IsFiniteSet(Publishers) /\ MaxFrames \in Nat /\ SendQueue \in Nat

VARIABLES
  client,      \* connections: the struct, its goroutines, what the browser got
  pub,         \* publishers: frames so far, and the Broadcast under way
  dropped,     \* <<client, frame>> for every frame a full queue refused
  due          \* history: by client, the frames it was subscribed to throughout

wsVars == <<client, pub, dropped, due>>

Frame(p, n, ch) == [by |-> p, n |-> n, ch |-> ch]
Frames == [by : Publishers, n : 1 .. MaxFrames, ch : Channels]

Unconnected == [state |-> "none", locked |-> FALSE, authed |-> FALSE, channels |-> {},
                send |-> <<>>, got |-> <<>>]
Idle(n) == [n |-> n, left |-> {}, sub |-> {}, frame |-> <<>>]

WsInit ==
  /\ client = [c \in Clients |-> Unconnected]
  /\ pub = [p \in Publishers |-> Idle(0)]
  /\ dropped = {}
  /\ due = [c \in Clients |-> {}]

\* The clients in the table, and whether a Broadcast holds its read lock.
Registered == {c \in Clients : client[c].state \in {"open", "leaving"}}
Reading == \E p \in Publishers : pub[p].frame # <<>>

-----------------------------------------------------------------------------
(* A connection: HandleWS                                                  *)

\* Connections and publishers come in one order: their names mean nothing.
New == {c \in Clients : client[c].state = "none"}

Connect ==
  /\ New # {} /\ ~Reading
  /\ LET c == CHOOSE d \in New : TRUE IN
     \E authed \in BOOLEAN :      \* TRUE when no Authenticate is set
       client' = [client EXCEPT ![c].state = "open", ![c].authed = authed]
  /\ UNCHANGED <<pub, dropped, due>>

Reads(c) == client[c].state = "open" /\ ~client[c].locked

\* An "auth" message: the client is locked while Authenticate asks the
\* database.
Auth(c) ==
  /\ Reads(c)
  /\ client' = [client EXCEPT ![c].locked = TRUE]
  /\ UNCHANGED <<pub, dropped, due>>

\* A wrong token ends the connection.
Authenticated(c) ==
  /\ client[c].locked
  /\ \/ client' = [client EXCEPT ![c].locked = FALSE, ![c].authed = TRUE]
     \/ client' = [client EXCEPT ![c].locked = FALSE, ![c].state = "leaving"]
  /\ UNCHANGED <<pub, dropped, due>>

Subscribe(c, ch) ==
  /\ Reads(c)
  /\ client[c].authed
  /\ client' = [client EXCEPT ![c].channels = @ \cup {ch}]
  /\ UNCHANGED <<pub, dropped, due>>

\* History: c is no longer due the frames under way that it has not been sent.
NotDue(c, of) ==
  pub' = [p \in Publishers |-> IF pub[p].frame # <<>> /\ pub[p].frame.ch \in of
                               THEN [pub[p] EXCEPT !.sub = @ \ {c}] ELSE pub[p]]

Unsubscribe(c, ch) ==
  /\ Reads(c) /\ ch \in client[c].channels
  /\ client' = [client EXCEPT ![c].channels = @ \ {ch}]
  /\ NotDue(c, {ch})
  /\ UNCHANGED <<dropped, due>>

\* The browser goes away, or its connection was closed: Read fails.
Disconnect(c) ==
  /\ Reads(c)
  /\ client' = [client EXCEPT ![c].state = "leaving"]
  /\ UNCHANGED <<pub, dropped, due>>

\* HandleWS's deferred function: out of the table, and garbage.
Leave(c) ==
  /\ client[c].state = "leaving" /\ ~Reading
  /\ client' = [client EXCEPT ![c] = [Unconnected EXCEPT !.state = "gone"]]
  /\ due' = [due EXCEPT ![c] = {}]
  /\ UNCHANGED <<pub, dropped>>

-----------------------------------------------------------------------------
(* The writer: writeLoop                                                   *)

\* The next frame is written.  What is written to a client that is leaving
\* reaches nobody: its connection is closed.
Write(c) ==
  /\ client[c].state = "open" /\ client[c].send # <<>>
  /\ client' = [client EXCEPT ![c].got = Append(@, Head(client[c].send)), ![c].send = Tail(@)]
  /\ UNCHANGED <<pub, dropped, due>>

\* A write that fails or takes five seconds closes the connection: the writer
\* returns, and Read fails.
WriteFails(c) ==
  /\ client[c].state = "open" /\ ~client[c].locked /\ client[c].send # <<>>
  /\ client' = [client EXCEPT ![c].state = "leaving"]
  /\ UNCHANGED <<pub, dropped, due>>

-----------------------------------------------------------------------------
(* Broadcast                                                               *)

\* The frames broadcast so far, that under way among them.
Begun == {f \in Publishers \X (1 .. MaxFrames) : f[2] <= pub[f[1]].n}

Begin(p, ch) ==
  /\ pub[p].n = 0 => p = CHOOSE q \in Publishers : pub[q].n = 0
  /\ pub[p].frame = <<>> /\ Cardinality(Begun) < MaxFrames
  /\ pub' = [pub EXCEPT ![p] = [n |-> @.n + 1, left |-> Registered, frame |-> Frame(p, pub[p].n + 1, ch),
                                sub |-> {c \in Registered : ch \in client[c].channels}]]
  /\ UNCHANGED <<client, dropped, due>>

\* Mutant: a client that cannot keep up ends the broadcast.
Rest_Stop(p, c) == IF Len(client[c].send) = SendQueue THEN {} ELSE pub[p].left \ {c}

\* The clients still to be looked at after c.
Rest(p, c) == pub[p].left \ {c}

\* The next client: the frame is queued if it is subscribed and dropped if its
\* queue is full.  A client whose message is being handled is waited for.
Offer(p, c) ==
  /\ c \in pub[p].left /\ ~client[c].locked
  /\ LET f == pub[p].frame IN
     IF f.ch \notin client[c].channels THEN UNCHANGED <<client, dropped>>
     ELSE IF Len(client[c].send) < SendQueue
          THEN client' = [client EXCEPT ![c].send = Append(@, f)] /\ UNCHANGED dropped
          ELSE dropped' = dropped \cup {<<c, f>>} /\ UNCHANGED client
  /\ pub' = [pub EXCEPT ![p].left = Rest(p, c)]
  /\ UNCHANGED due

\* ... until all have been.
End(p) ==
  /\ pub[p].frame # <<>> /\ pub[p].left = {}
  /\ due' = [c \in Clients |-> IF c \in pub[p].sub THEN due[c] \cup {pub[p].frame} ELSE due[c]]
  /\ pub' = [pub EXCEPT ![p] = Idle(@.n)]
  /\ UNCHANGED <<client, dropped>>

-----------------------------------------------------------------------------
WsNext ==
  \/ Connect
  \/ \E c \in Clients :
       \/ Auth(c) \/ Authenticated(c) \/ Disconnect(c) \/ Leave(c)
       \/ \E ch \in Channels : Subscribe(c, ch) \/ Unsubscribe(c, ch)
       \/ Write(c) \/ WriteFails(c)
  \/ \E p \in Publishers :
       \/ \E ch \in Channels : Begin(p, ch)
       \/ \E c \in Clients : Offer(p, c)
       \/ End(p)

WsSpec == WsInit /\ [][WsNext]_wsVars

-----------------------------------------------------------------------------
(* Properties                                                              *)

WsTypeOK ==
  /\ \A c \in Clients :
       /\ client[c].state \in {"none", "open", "leaving", "gone"}
       /\ client[c].channels \subseteq Channels
       /\ Len(client[c].send) <= SendQueue
       /\ due[c] \subseteq Frames
  /\ \A p \in Publishers : pub[p].n \in 0 .. MaxFrames /\ pub[p].left \subseteq Clients
  /\ dropped \subseteq Clients \X Frames

\* What the server has taken on for c, the frames it has written first.
Stream(c) == client[c].got \o client[c].send

\* Every client gets a publisher's frames in the order they were broadcast in
\* and none twice, though other clients come and go and publishers interleave;
\* of the frames it was subscribed to throughout, it lacks only those counted
\* as dropped (Broadcast: "Frames for clients that cannot keep up are dropped,
\* not queued forever").
FramesInOrder ==
  \A c \in Clients :
    LET s == Stream(c) IN
    /\ \A i, j \in DOMAIN s : i < j /\ s[i].by = s[j].by => s[i].n < s[j].n
    /\ \A f \in due[c] : <<c, f>> \in dropped \/ \E i \in DOMAIN s : s[i] = f
=============================================================================
