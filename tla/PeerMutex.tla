------------------------------ MODULE PeerMutex ------------------------------
(***************************************************************************)
(* vrpn_PeerMutex (vrpn_Mutex.C, .h): mutual exclusion among equal peers.  *)
(*                                                                         *)
(* Every peer listens on one connection (d_server) and sends to each other *)
(* peer over a connection of its own (d_peer[i]), so messages from p to q  *)
(* arrive in order and are unordered with respect to any others.  A peer   *)
(* asks all its peers for the lock and owns it when as many grants have    *)
(* come as it has peers.  Replies are sent to every peer and ignored by    *)
(* all but the one whose address they carry.                               *)
(*                                                                         *)
(* Addresses (IP, port) are numbers: the code compares them               *)
(* lexicographically and uses nothing else of them.  The peer lists are    *)
(* complete from the start; calling addPeer later is documented not to     *)
(* work (vrpn_Mutex.h:181).                                                *)
(***************************************************************************)
EXTENDS Integers, FiniteSets, Sequences

CONSTANTS Peer,        \* addresses, positive
          MaxRequest,  \* bound: requests each peer sends
          MaxLoss      \* bound: connections that are lost

ASSUME PeerAssumption == /\ Peer \subseteq Nat \ {0} /\ IsFiniteSet(Peer)
                         /\ MaxRequest \in Nat /\ MaxLoss \in Nat

NoHolder == 0   \* d_holderIP = 0, d_holderPort = -1

VARIABLES
  d_state,    \* d_state[p]
  d_holder,   \* (d_holderIP, d_holderPort) of p
  d_numPeersGrantingLock,
  d_peer,     \* d_peer[p]: the peers p still has a connection to
  chan,       \* chan[p][q]: messages from p to q
  requests, losses,  \* counters for the bounds
  takes       \* history: take callbacks since p's last release callback

vars == <<d_state, d_holder, d_numPeersGrantingLock, d_peer, chan, requests,
          losses, takes>>

Msg == [type : {"Request", "Release", "Grant", "Deny"}, of : Peer]

numPeers(p) == Cardinality(d_peer[p])

Init ==
  /\ d_state = [p \in Peer |-> "AVAILABLE"]
  /\ d_holder = [p \in Peer |-> NoHolder]
  /\ d_numPeersGrantingLock = [p \in Peer |-> 0]
  /\ d_peer = [p \in Peer |-> Peer \ {p}]
  /\ chan = [p \in Peer |-> [q \in Peer |-> <<>>]]
  /\ requests = [p \in Peer |-> 0] /\ losses = 0
  /\ takes = [p \in Peer |-> 0]

\* p's outgoing queues after one more message m to each of its peers.
ToPeers(p, m) ==
  [q \in Peer |-> IF q \in d_peer[p] THEN Append(chan[p][q], m)
                                     ELSE chan[p][q]]

SendToPeers(p, type, of) ==
  chan' = [chan EXCEPT ![p] = ToPeers(p, [type |-> type, of |-> of])]

-----------------------------------------------------------------------------
(* checkGrantMutex: the state of p once g grants have come from n peers. *)

\* Mutant of Wins: one grant too few is enough.
WinsEarly(st, g, n) == st = "REQUESTING" /\ g = n - 1

Wins(st, g, n) == st = "REQUESTING" /\ g = n

StateAfterCheck(st, g, n) == IF Wins(st, g, n) THEN "OURS" ELSE st

CountTake(p, taken) ==
  takes' = [takes EXCEPT ![p] = IF taken THEN @ + 1 ELSE @]

-----------------------------------------------------------------------------
(* Calls of the user. *)

ResetGrants(p) ==
  d_numPeersGrantingLock' = [d_numPeersGrantingLock EXCEPT ![p] = 0]

\* request() of an available lock; otherwise it only triggers the deny
\* callbacks.  A peer without peers owns the lock at once.
Request(p) ==
  /\ d_state[p] = "AVAILABLE"
  /\ requests[p] < MaxRequest
  /\ requests' = [requests EXCEPT ![p] = @ + 1]
  /\ ResetGrants(p)
  /\ SendToPeers(p, "Request", p)
  /\ d_holder' = [d_holder EXCEPT ![p] = p]
  /\ d_state' = [d_state EXCEPT ![p] =
                   StateAfterCheck("REQUESTING", 0, numPeers(p))]
  /\ CountTake(p, numPeers(p) = 0)
  /\ UNCHANGED <<d_peer, losses>>

\* release() does nothing unless the lock is held locally.
Release(p) ==
  /\ d_state[p] = "OURS"
  /\ d_state' = [d_state EXCEPT ![p] = "AVAILABLE"]
  /\ d_holder' = [d_holder EXCEPT ![p] = NoHolder]
  /\ SendToPeers(p, "Release", p)
  /\ takes' = [takes EXCEPT ![p] = 0]
  /\ UNCHANGED <<d_numPeersGrantingLock, d_peer, requests, losses>>

-----------------------------------------------------------------------------
(* Handlers of d_server. *)

Reads(q, p, type) == chan[q][p] # <<>> /\ Head(chan[q][p]).type = type

Subject(q, p) == Head(chan[q][p]).of

Rest(q, p) == [chan EXCEPT ![q][p] = Tail(@)]

\* Reading the request of q and replying to all peers in one step.
Reply(q, p, type) ==
  chan' = [Rest(q, p) EXCEPT ![p] = ToPeers(p, [type |-> type, of |-> q])]

\* Mutant of Yields: the tie break is left out.
YieldsNoTie(p, q) == d_state[p] = "AVAILABLE"

\* Does p grant the lock to q?  Ties go to the lowest address.
Yields(p, q) == \/ d_state[p] = "AVAILABLE"
                \/ /\ d_state[p] \in {"HELD_REMOTELY", "REQUESTING"}
                   /\ q < d_holder[p]

\* Mutant of TakeIsNews: the take callbacks run for every grant issued.
TakeIsAlwaysNews(p) == TRUE

\* Are p's take callbacks due when it grants the lock?
TakeIsNews(p) == d_state[p] # "HELD_REMOTELY"

\* Mutant of HandleRequest: the granting peer does not mark the lock taken.
HandleRequestUnmarked(q, p) ==
  /\ Reads(q, p, "Request")
  /\ Reply(q, p, IF Yields(p, Subject(q, p)) THEN "Grant" ELSE "Deny")
  /\ UNCHANGED <<d_holder, d_state, takes, d_numPeersGrantingLock, d_peer,
                 requests, losses>>

\* Mutant of HandleRequest: a request that is not granted is not answered.
HandleRequestSilent(q, p) ==
  /\ Reads(q, p, "Request")
  /\ LET s == Subject(q, p) IN
       \/ /\ Yields(p, s)
          /\ d_holder' = [d_holder EXCEPT ![p] = s]
          /\ CountTake(p, TakeIsNews(p))
          /\ d_state' = [d_state EXCEPT ![p] = "HELD_REMOTELY"]
          /\ Reply(q, p, "Grant")
       \/ /\ ~Yields(p, s)
          /\ chan' = Rest(q, p)
          /\ UNCHANGED <<d_holder, d_state, takes>>
  /\ UNCHANGED <<d_numPeersGrantingLock, d_peer, requests, losses>>

HandleRequest(q, p) ==
  /\ Reads(q, p, "Request")
  /\ LET s == Subject(q, p) IN
       \/ /\ Yields(p, s)
          /\ d_holder' = [d_holder EXCEPT ![p] = s]
          /\ CountTake(p, TakeIsNews(p))
          /\ d_state' = [d_state EXCEPT ![p] = "HELD_REMOTELY"]
          /\ Reply(q, p, "Grant")
       \/ /\ ~Yields(p, s)
          /\ Reply(q, p, "Deny")
          /\ UNCHANGED <<d_holder, d_state, takes>>
  /\ UNCHANGED <<d_numPeersGrantingLock, d_peer, requests, losses>>

\* A release from somebody who is not the holder is reported and obeyed.
HandleRelease(q, p) ==
  /\ Reads(q, p, "Release")
  /\ d_state' = [d_state EXCEPT ![p] = "AVAILABLE"]
  /\ d_holder' = [d_holder EXCEPT ![p] = NoHolder]
  /\ takes' = [takes EXCEPT ![p] = 0]
  /\ chan' = Rest(q, p)
  /\ UNCHANGED <<d_numPeersGrantingLock, d_peer, requests, losses>>

\* Grants are counted whatever p's state and whichever request they answer.
HandleGrantRequest(q, p) ==
  /\ Reads(q, p, "Grant")
  /\ \/ /\ Subject(q, p) = p
        /\ LET g == d_numPeersGrantingLock[p] + 1 IN
             /\ d_numPeersGrantingLock' =
                  [d_numPeersGrantingLock EXCEPT ![p] = g]
             /\ d_state' = [d_state EXCEPT ![p] =
                              StateAfterCheck(@, g, numPeers(p))]
             /\ CountTake(p, Wins(d_state[p], g, numPeers(p)))
     \/ /\ Subject(q, p) # p
        /\ UNCHANGED <<d_numPeersGrantingLock, d_state, takes>>
  /\ chan' = Rest(q, p)
  /\ UNCHANGED <<d_holder, d_peer, requests, losses>>

HandleDenyRequest(q, p) ==
  /\ Reads(q, p, "Deny")
  /\ \/ /\ Subject(q, p) = p
        /\ ResetGrants(p)
        /\ d_state' = [d_state EXCEPT ![p] = "HELD_REMOTELY"]
     \/ /\ Subject(q, p) # p
        /\ UNCHANGED <<d_numPeersGrantingLock, d_state>>
  /\ chan' = Rest(q, p)
  /\ UNCHANGED <<d_holder, d_peer, requests, losses, takes>>

-----------------------------------------------------------------------------
(* handle_losePeer for each connection in lost during one pass of p's       *)
(* mainloop, which ends with checkGrantMutex.  A request under way is not   *)
(* aborted: the release() the handler calls does nothing then.              *)

\* How many messages of each channel that breaks are still delivered.
Kept(p, lost) ==
  {kept \in [lost -> UNION {0..Len(chan[p][q]) : q \in lost}] :
     \A q \in lost : kept[q] <= Len(chan[p][q])}

LosePeers(p, lost) ==
  /\ lost # {} /\ lost \subseteq d_peer[p]
  /\ losses + Cardinality(lost) <= MaxLoss
  /\ losses' = losses + Cardinality(lost)
  /\ d_peer' = [d_peer EXCEPT ![p] = @ \ lost]
  /\ \E kept \in Kept(p, lost) :
       chan' = [chan EXCEPT ![p] =
                  [q \in Peer |-> IF q \in lost THEN SubSeq(@[q], 1, kept[q])
                                               ELSE @[q]]]
  /\ LET g == d_numPeersGrantingLock[p]
         n == numPeers(p) - Cardinality(lost) IN
       /\ d_state' = [d_state EXCEPT ![p] = StateAfterCheck(@, g, n)]
       /\ CountTake(p, Wins(d_state[p], g, n))
  /\ UNCHANGED <<d_holder, d_numPeersGrantingLock, requests>>

-----------------------------------------------------------------------------
Handle(q, p) == \/ HandleRequest(q, p)      \/ HandleRelease(q, p)
                \/ HandleGrantRequest(q, p) \/ HandleDenyRequest(q, p)

Work == \/ \E p \in Peer : Request(p) \/ Release(p)
        \/ \E p, q \in Peer : Handle(q, p)

Next == Work \/ \E p \in Peer : \E lost \in SUBSET d_peer[p] : LosePeers(p, lost)

Spec == Init /\ [][Next]_vars

\* Every mainloop keeps reading, and an owner releases the lock in the end.
Fairness == /\ \A p, q \in Peer : WF_vars(Handle(q, p))
            /\ \A p \in Peer : WF_vars(Release(p))

FairSpec == Spec /\ Fairness

-----------------------------------------------------------------------------
(* Properties. *)

\* Every variable holds what its C++ declaration admits.
TypeOK ==
  /\ d_state \in [Peer -> {"OURS", "REQUESTING", "AVAILABLE", "HELD_REMOTELY"}]
  /\ d_holder \in [Peer -> Peer \cup {NoHolder}]
  /\ d_numPeersGrantingLock \in [Peer -> Nat]
  /\ d_peer \in [Peer -> SUBSET Peer]
  /\ chan \in [Peer -> [Peer -> Seq(Msg)]]
  /\ requests \in [Peer -> Nat] /\ losses \in Nat /\ takes \in [Peer -> Nat]

\* "Provides distributed mutual exclusion between every instance with the
\* same name" (vrpn_Mutex.h:148): no two peers hold the lock at once.
MutualExclusion ==
  \A p, q \in Peer : d_state[p] = "OURS" /\ d_state[q] = "OURS" => p = q

\* Among any number of peers, while no connection has been lost.
ExclusionUntilLoss == losses = 0 => MutualExclusion

\* While one of two peers owns the lock the other does not believe that it is
\* available: it knows of the owner, or is asking for the lock itself and is
\* going to be denied.
OwnerIsKnown ==
  \A p, q \in Peer :
    d_state[p] = "OURS" /\ p # q =>
      /\ d_state[q] # "AVAILABLE"
      /\ d_state[q] = "HELD_REMOTELY" \/ d_holder[q] = q

\* Take callbacks "will only be triggered once between triggerings of
\* ReleaseCallbacks" (vrpn_Mutex.h:243), however many grants are issued.
TakenOnce == \A p \in Peer : takes[p] <= 1

\* "The process has the lock until it explicitly calls release()"
\* (vrpn_Mutex.h:153).
HeldUntilRelease ==
  [][\A p \in Peer : d_state[p] = "OURS" /\ d_state'[p] # "OURS" => Release(p)]_vars

\* A peer that believes the lock is held remotely is right, once every
\* message has been read: otherwise no release will ever come and the peer
\* can never request the lock again (vrpn_Mutex.h:86).
NothingUnderWay == \A p, q \in Peer : chan[p][q] = <<>>
HeldBySomeone ==
  NothingUnderWay /\ (\E p \in Peer : d_state[p] = "HELD_REMOTELY")
    => \E q \in Peer : d_state[q] = "OURS"

\* "Either RequestGranted or RequestDenied callbacks will be triggered"
\* (vrpn_Mutex.h:152): no request stays open for ever, as long as no connection
\* is lost.
EveryRequestEnds ==
  \A p \in Peer :
    d_state[p] = "REQUESTING" ~> d_state[p] # "REQUESTING" \/ losses > 0
=============================================================================
