----------------------------- MODULE DhtSearch -----------------------------
(***************************************************************************)
(* The search for peers: the loops of Torrent::downloadCo, findPeers of    *)
(* Dht.cpp and the table threadsMap of the addresses with a session.       *)
(*                                                                         *)
(* downloadCo runs on a thread of the pool and waits for findPeers with    *)
(* future::get, which blocks that thread; every other step needs a thread  *)
(* of the pool that is not blocked.  Of a session only its start, its      *)
(* completing of the download and its end are kept: PieceExchange has the  *)
(* rest.  The DHT is the environment: a query is lost, times out, cannot   *)
(* be sent or decoded, or is answered with any peers and nodes.            *)
(***************************************************************************)
EXTENDS Integers, Sequences, SequencesExt

CONSTANTS
  Addresses,   \* peer addresses in DHT replies
  Nodes,       \* DHT nodes in replies
  Bootstrap,   \* the node given to download()
  MaxPeers,    \* bound: peers in one reply
  MaxNodes,    \* bound: nodes in one reply
  MaxStack     \* bound: nodes waiting on the stack

\* A DhtNode whose address was moved out: an empty string.
Unnamed == "unnamed"

ASSUME NodesAssumption == Bootstrap \notin Nodes /\ Unnamed \notin Nodes \cup {Bootstrap}
ASSUME BoundsAssumption == {MaxPeers, MaxNodes, MaxStack} \subseteq Nat

VARIABLES
  pc,           \* where downloadCo is
  dhtNode,      \* its local for the bootstrap node
  dhtNodeStack, \* the nodes to ask, the next one last
  asked,        \* the node findPeers is asking
  peersLeft,    \* of the reply: peers not looked at yet,
  nodesFound,   \*   and nodes
  threadsMap,   \* a multimap: how many entries an address has
  sessions,     \* sessions of an address that did not erase their entry yet
  downloaded    \* status = DOWNLOADED

reply == <<peersLeft, nodesFound>>
registry == <<threadsMap, sessions>>
vars == <<pc, dhtNode, dhtNodeStack, asked, reply, registry, downloaded>>

Init ==
  /\ pc = "outer"
  /\ dhtNode = Bootstrap
  /\ dhtNodeStack = <<>>
  /\ asked = Unnamed
  /\ peersLeft = <<>>
  /\ nodesFound = <<>>
  /\ threadsMap = [a \in Addresses |-> 0]
  /\ sessions = [a \in Addresses |-> 0]
  /\ downloaded = FALSE

-----------------------------------------------------------------------------
(* The pool.                                                               *)

\* Mutant of PoolThreads: a pool of one thread.
OneThread == 1

\* for (int n = 0; n < 8; ++n) threadsPool.emplace_back(...)
PoolThreads == 8

\* future.get() holds the thread downloadCo runs on.
ThreadFree == PoolThreads - (IF pc = "asking" THEN 1 ELSE 0) > 0

-----------------------------------------------------------------------------
(* downloadCo.                                                             *)

\* What `dhtNodeStack.push(std::move(dhtNode))` leaves in dhtNode.
AfterMove == Unnamed

PushBootstrap ==
  /\ pc = "outer"
  /\ dhtNodeStack' = Append(dhtNodeStack, dhtNode)
  /\ dhtNode' = AfterMove
  /\ pc' = "inner"
  /\ UNCHANGED <<asked, reply, registry, downloaded>>

\* The top of the stack is popped and findPeers is spawned for it.
AskTop ==
  /\ pc = "inner"
  /\ asked' = Last(dhtNodeStack)
  /\ dhtNodeStack' = Front(dhtNodeStack)
  /\ pc' = "asking"
  /\ UNCHANGED <<dhtNode, reply, registry, downloaded>>

\* Whatever goes wrong in findPeers, it returns what it has decoded so far; a
\* node without a name cannot even be asked.
FindPeers ==
  /\ pc = "asking"
  /\ ThreadFree
  /\ IF asked = Unnamed
     THEN peersLeft' = <<>> /\ nodesFound' = <<>>
     ELSE /\ peersLeft' \in BoundedSeq(Addresses, MaxPeers)
          /\ nodesFound' \in BoundedSeq(Nodes, MaxNodes)
          /\ Len(dhtNodeStack) + Len(nodesFound') <= MaxStack
  /\ pc' = "peers"
  /\ UNCHANGED <<dhtNode, dhtNodeStack, asked, registry, downloaded>>

\* Mutant of HasNoSession: threadsMap is not looked at.
AnyAddress(a) == TRUE

\* !threadsMap.contains(key)
HasNoSession(a) == threadsMap[a] = 0

\* On threadMapStd: the next peer of the reply gets a session unless it has one.
NextPeer ==
  /\ pc = "peers"
  /\ peersLeft # <<>>
  /\ peersLeft' = Tail(peersLeft)
  /\ LET key == Head(peersLeft) IN
       IF HasNoSession(key)
       THEN /\ threadsMap' = [threadsMap EXCEPT ![key] = @ + 1]
            /\ sessions' = [sessions EXCEPT ![key] = @ + 1]
       ELSE UNCHANGED registry
  /\ UNCHANGED <<pc, dhtNode, dhtNodeStack, asked, nodesFound, downloaded>>

PushNodes ==
  /\ pc = "peers"
  /\ peersLeft = <<>>
  /\ dhtNodeStack' = dhtNodeStack \o nodesFound
  /\ nodesFound' = <<>>
  /\ pc' = "innerTest"
  /\ UNCHANGED <<dhtNode, asked, peersLeft, registry, downloaded>>

\* Mutants of AsksOn: the stack, or the status, is not looked at.
AsksAnyhow == ~ downloaded
AsksWhileNodes == dhtNodeStack # <<>>

\* while (!dhtNodeStack.empty() && status != DOWNLOADED)
AsksOn == dhtNodeStack # <<>> /\ ~ downloaded

InnerTest ==
  /\ pc = "innerTest"
  /\ pc' = IF AsksOn THEN "inner" ELSE "outerTest"
  /\ UNCHANGED <<dhtNode, dhtNodeStack, asked, reply, registry, downloaded>>

\* Mutant of SearchesOn: the search is over when the stack is empty.
SearchesOnNodes == dhtNodeStack # <<>>

\* while (status != DOWNLOADED)
SearchesOn == ~ downloaded

OuterTest ==
  /\ pc = "outerTest"
  /\ pc' = IF SearchesOn THEN "outer" ELSE "ended"
  /\ UNCHANGED <<dhtNode, dhtNodeStack, asked, reply, registry, downloaded>>

-----------------------------------------------------------------------------
(* The sessions.                                                           *)

Completes(a) ==
  /\ ThreadFree
  /\ sessions[a] > 0
  /\ downloaded' = TRUE
  /\ UNCHANGED <<pc, dhtNode, dhtNodeStack, asked, reply, registry>>

\* Mutant of Erased: the entry of a session that ended stays.
ErasedNever(a) == threadsMap[a]

\* What erase(key) leaves: it removes every entry of the address.
Erased(a) == 0

\* On threadMapStd.
Leaves(a) ==
  /\ ThreadFree
  /\ sessions[a] > 0
  /\ sessions' = [sessions EXCEPT ![a] = @ - 1]
  /\ threadsMap' = [threadsMap EXCEPT ![a] = Erased(a)]
  /\ UNCHANGED <<pc, dhtNode, dhtNodeStack, asked, reply, downloaded>>

\* downloadCo is over and so are the sessions.
Stopped ==
  /\ pc = "ended"
  /\ \A a \in Addresses : sessions[a] = 0
  /\ UNCHANGED vars

-----------------------------------------------------------------------------

DownloadCo ==
  \/ PushBootstrap \/ AskTop \/ NextPeer \/ PushNodes \/ InnerTest \/ OuterTest

Next ==
  \/ DownloadCo
  \/ FindPeers
  \/ \E a \in Addresses : Completes(a) \/ Leaves(a)
  \/ Stopped

\* findPeers ends within half a second of the query; the threads that are free
\* run what is ready.
Spec == Init /\ [][Next]_vars /\ WF_vars(DownloadCo) /\ WF_vars(FindPeers)

-----------------------------------------------------------------------------
(* Properties.                                                             *)

Names == Nodes \cup {Bootstrap, Unnamed}

TypeOK ==
  /\ pc \in {"outer", "inner", "asking", "peers", "innerTest", "outerTest", "ended"}
  /\ dhtNode \in {Bootstrap, Unnamed}
  /\ dhtNodeStack \in Seq(Names)
  /\ pc = "inner" => dhtNodeStack # <<>>
  /\ asked \in Names
  /\ peersLeft \in Seq(Addresses)
  /\ nodesFound \in Seq(Nodes)
  /\ threadsMap \in [Addresses -> Nat]
  /\ sessions \in [Addresses -> Nat]
  /\ downloaded \in BOOLEAN

\* However often replies repeat an address, it has one session at a time, and an
\* entry in threadsMap exactly while it has one (Torrent.cpp:172-185, 496-498).
OneSessionPerAddress ==
  \A a \in Addresses : sessions[a] <= 1 /\ threadsMap[a] = sessions[a]

\* A peer that a reply names has a session at some time from then on: it is not
\* skipped for an entry that an earlier session of its address left behind
\* (Torrent.cpp:172-185, 496-498).
PeersServed == \A a \in Addresses : a \in ToSet(peersLeft) ~> sessions[a] > 0

\* Only a complete download ends the search, and an address with a session never
\* gets a second one.
Found == INSTANCE Discovery WITH
  searching <- pc # "ended",
  alive <- {a \in Addresses : sessions[a] > 0}
DiscoverySpec == Found!Spec

\* The search notices that the download is complete, whatever nodes the DHT goes on
\* naming (Torrent.cpp:191, 195-197).
SearchStops == downloaded ~> pc = "ended"

\* The wait for a reply ends, although it blocks a thread of the pool that has to
\* run findPeers (Torrent.cpp:117-125, 163-165).
WaitEnds == pc = "asking" ~> pc = "peers"

=============================================================================
