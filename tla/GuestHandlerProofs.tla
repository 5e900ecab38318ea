------------------------- MODULE GuestHandlerProofs -------------------------
(***************************************************************************)
(* Proofs about the handlers of a guest (GuestHandlers), for every set of  *)
(* guests and every cap: what each of them makes of a sound guest. They    *)
(* are used twice, for a guest alone with whatever the network does        *)
(* (GuestProofs) and for the guests of the mesh (AdmissionProofs).         *)
(*                                                                         *)
(* Sound says where the transports of a guest are: each is in its mesh,    *)
(* waits, or is being closed; the mesh is within the roster; while the     *)
(* host is gone only those of the frozen roster may come back; and a       *)
(* revision is held only while the verified host is there, in the mesh as  *)
(* soon as its transport has joined. Rosters are handled transport by      *)
(* transport, in the order of a fold: Folding makes the induction over it  *)
(* first-order.                                                            *)
(***************************************************************************)
EXTENDS GuestHandlers, FiniteSetTheorems, TLAPS

(* The folds of the handlers: ResolveAll over Resolve, OnFallback over      *)
(* FillUp.                                                                  *)
RF == INSTANCE Folding WITH Op <- Resolve
FF == INSTANCE Folding WITH Op <- FillUp

(* The types: messages, and the record of a guest.                          *)
Messages == Rosters \union {NoMessage}
GuestStates ==
  [self : Guests, live : BOOLEAN, links : SUBSET Ids, cut : SUBSET Ids, peers : SUBSET Ids,
   pending : SUBSET Ids, bound : BOOLEAN, authed : BOOLEAN, claimed : BOOLEAN,
   roster : SUBSET Guests, known : BOOLEAN, rev : Nat \union {NoRev}, closed : BOOLEAN,
   back : SUBSET Ids, fallback : BOOLEAN, overflow : BOOLEAN, early : Messages,
   full : BOOLEAN, ended : {"no", "authority", "full", "timeout"}]

(* What the cap of the mesh allows.                                         *)
Fits(ids) == Cardinality(ids) <= MaxRemote

(* The transports of a live guest: each is in the mesh, waits, or is being  *)
(* closed, and none is its own.                                             *)
Transports(s) ==
  /\ s.peers \union s.pending \union s.cut = s.links
  /\ s.self \notin s.links
  /\ s.peers \intersect s.pending = {}
  /\ s.ended = "no"

(* The mesh is within the roster, or within the cap while there is none.    *)
Listed(s) ==
  /\ s.known => /\ s.peers \subseteq s.roster \union {Host} \union s.cut
                /\ s.self \in s.roster
                /\ Fits(s.roster)
                /\ s.bound
  /\ ~s.known => Fits(s.peers)
  /\ s.authed => s.bound

(* While the host is gone, only those of the frozen roster may come back,   *)
(* the host among them, which does not have to wait then.                   *)
Door(s) ==
  s.closed => /\ Host \in s.back /\ s.bound /\ Host \notin s.pending
              /\ s.known => s.back \subseteq s.roster \union {Host}

(* A revision is held only while the verified host is there: once its       *)
(* transport has joined it is in the mesh, so that its leave is noticed.    *)
(* A roster waits only while the host is not verified.                      *)
Announced(s) ==
  /\ s.rev # NoRev => /\ ~s.closed /\ s.authed /\ s.known
                      /\ Host \in s.links => Host \in s.peers
  /\ s.authed => s.early = NoMessage
  /\ Fits(s.early.ids)

(* What every handler keeps of a live guest.                                *)
Sound(s) == Transports(s) /\ Listed(s) /\ Door(s) /\ Announced(s)

----------------------------------------------------------------------------
(* What does not change while transports are admitted.                      *)
Keeps(s, r) ==
  /\ r.self = s.self /\ r.live = s.live /\ r.links = s.links /\ r.authed = s.authed
  /\ r.roster = s.roster /\ r.known = s.known /\ r.rev = s.rev /\ r.back = s.back
  /\ r.early = s.early /\ r.full = s.full /\ r.ended = s.ended

(* Closing transports.                                                      *)
LEMMA CutIs ==
  ASSUME NEW s \in GuestStates, NEW ids \in SUBSET Ids
  PROVE  LET r == Cut(s, ids)
         IN  /\ r \in GuestStates /\ Keeps(s, r) /\ r.cut = s.cut \union (ids \intersect s.links)
             /\ r.peers = s.peers /\ r.pending = s.pending /\ r.bound = s.bound
             /\ r.claimed = s.claimed /\ r.closed = s.closed
BY DEF Cut, GuestStates, Keeps

(* Admitting a peer: the first admission under a claimed host verifies it,  *)
(* and a verified host opens a door that was closed.                        *)
LEMMA AdmitIs ==
  ASSUME NEW s \in GuestStates, NEW p \in Ids
  PROVE  LET r == AdmitPeer(s, p)
         IN  /\ r \in GuestStates /\ Keeps(s, r) /\ r.cut = s.cut
             /\ r.peers = s.peers \union {p} /\ r.pending = s.pending 
             /\ (r.bound <=> s.bound \/ (s.claimed /\ p = Host))
             /\ (r.claimed <=> s.claimed /\ p # Host)
             /\ (r.closed <=> s.closed /\ ~(p = Host /\ r.bound /\ s.authed))
<1> DEFINE b == s.bound \/ (s.claimed /\ p = Host)
           c == s.closed /\ ~(p = Host /\ b /\ s.authed)
           d == s.claimed /\ p # Host
           r == [s EXCEPT !.peers = @ \union {p}, !.bound = b, !.claimed = d, !.closed = c]
<1>1. b \in BOOLEAN /\ c \in BOOLEAN /\ d \in BOOLEAN
  OBVIOUS
<1>2. AdmitPeer(s, p) = r
  BY DEF AdmitPeer
<1> HIDE DEF b, c, d
<1>3. r \in GuestStates
  BY <1>1 DEF GuestStates
<1>4. /\ Keeps(s, r) /\ r.cut = s.cut /\ r.peers = s.peers \union {p} /\ r.pending = s.pending
      /\ r.bound = b /\ r.claimed = d /\ r.closed = c
  BY DEF GuestStates, Keeps
<1> QED BY <1>2, <1>3, <1>4 DEF b, c, d

(* Sets of ids are finite.                                                  *)
LEMMA IdsFinite == \A T \in SUBSET Ids : IsFiniteSet(T) /\ Cardinality(T) \in Nat
BY GuestsAssumption, FS_AddElement, FS_Subset, FS_CardinalityType DEF Ids

(* A smaller mesh fits.                                                     *)
LEMMA FitsSmaller ==
  ASSUME NEW T \in SUBSET Ids, Fits(T), NEW U \in SUBSET T
  PROVE  Fits(U)
BY IdsFinite, FS_Subset, GuestRemoteAssumption DEF Fits

(* One more fits where the cap is not reached.                              *)
LEMMA FitsOneMore ==
  ASSUME NEW T \in SUBSET Ids, ~(Cardinality(T) >= MaxRemote), NEW p \in Ids
  PROVE  Fits(T \union {p})
BY IdsFinite, FS_AddElement, GuestRemoteAssumption DEF Fits

(* No message is a message without a revision.                              *)
LEMMA NoMessageTyped == NoMessage \in Messages /\ NoMessage.rev = NoRev /\ Fits(NoMessage.ids)
<1>1. NoMessage \in Messages
  BY DEF Messages
<1> QED BY <1>1, FS_EmptySet, GuestRemoteAssumption DEF NoMessage, Fits

(* The end of the session.                                                  *)
LEMMA EndIs ==
  ASSUME NEW s \in GuestStates, NEW reason \in {"authority", "full", "timeout"}
  PROVE  LET r == End(s, reason)
         IN  /\ r \in GuestStates /\ ~r.live /\ r.authed = s.authed /\ r.bound = s.bound
             /\ r.cut = s.cut /\ r.links = s.links /\ r.ended = reason /\ r.self = s.self
BY NoMessageTyped DEF End, GuestStates

(* A transport that has to wait waits, or is closed if too many do.         *)
LEMMA QueueIs ==
  ASSUME NEW s \in GuestStates, NEW p \in Ids, p \in s.links
  PROVE  LET r == Queue(s, p)
         IN  /\ r \in GuestStates /\ Keeps(s, r)
             /\ r.peers = s.peers /\ r.bound = s.bound /\ r.claimed = s.claimed
             /\ r.closed = s.closed
             /\ \/ p \in s.peers \union s.pending /\ r.cut = s.cut /\ r.pending = s.pending
                \/ /\ p \notin s.peers \union s.pending
                   /\ r.cut = s.cut \union {p} /\ r.pending = s.pending
                \/ /\ p \notin s.peers \union s.pending
                   /\ r.cut = s.cut /\ r.pending = s.pending \union {p}
<1>1. CASE p \in s.pending \union s.peers
  BY <1>1 DEF Queue, Keeps
<1>2. CASE p \notin s.pending \union s.peers /\ Cardinality(s.pending) >= MaxRemote
  <2> DEFINE o == s.overflow \/ ~s.known
             t == [s EXCEPT !.overflow = o]
  <2>1. o \in BOOLEAN
    OBVIOUS
  <2>2. Queue(s, p) = Cut(t, {p})
    BY <1>2 DEF Queue
  <2> HIDE DEF o
  <2>3. /\ t \in GuestStates /\ Keeps(s, t) /\ t.peers = s.peers /\ t.bound = s.bound
        /\ t.claimed = s.claimed /\ t.closed = s.closed /\ t.cut = s.cut /\ t.pending = s.pending
    BY <2>1 DEF GuestStates, Keeps
  <2> HIDE DEF t
  <2> QED BY <1>2, <2>2, <2>3, CutIs DEF Keeps
<1>3. CASE p \notin s.pending \union s.peers /\ ~(Cardinality(s.pending) >= MaxRemote)
  BY <1>3 DEF Queue, GuestStates, Keeps
<1> QED BY <1>1, <1>2, <1>3

(* A transport p of s that is neither waiting nor handled yet, and r after  *)
(* it was handled.                                                          *)
InHand(s, p) ==
  /\ s.peers \union s.pending \union s.cut \union {p} = s.links
  /\ p \notin s.pending
  /\ s.self \notin s.links
  /\ s.peers \intersect s.pending = {}
  /\ s.ended = "no"

(* r is s after its transport p was handled: in the mesh, waiting or being  *)
(* closed; what is admitted is allowed.                                     *)
Landed(s, p, r) ==
  /\ Keeps(s, r)
  /\ s.peers \subseteq r.peers /\ r.peers \subseteq s.peers \union {p}
  /\ s.cut \subseteq r.cut /\ r.cut \subseteq s.cut \union {p}
  /\ r.pending \subseteq s.pending \union {p}
  /\ s.bound => r.bound
  /\ r.closed => s.closed
  /\ p # Host => (r.closed <=> s.closed) /\ (r.claimed <=> s.claimed)
  /\ p \in s.peers => r = s
  /\ p \in r.peers \ s.peers => ~(s.closed /\ p \notin s.back) /\ ~Unlisted(s, p)
  /\ (p = Host /\ s.known /\ ~s.closed /\ (s.bound \/ s.claimed))
       => Host \in r.peers /\ (Host \in r.cut => Host \in s.cut)
  /\ (p = Host /\ s.closed /\ Host \in s.back /\ s.bound) => Host \notin r.pending

(* completePeerJoin leaves the transports and the list in order.            *)
LEMMA CompleteIs ==
  ASSUME NEW s \in GuestStates, NEW p \in Ids, InHand(s, p), Listed(s)
  PROVE  LET r == CompleteJoin(s, p)
         IN  r \in GuestStates /\ Transports(r) /\ Listed(r) /\ Landed(s, p, r)
<1> DEFINE r == CompleteJoin(s, p)
<1> SUFFICES r \in GuestStates /\ Transports(r) /\ Listed(r) /\ Landed(s, p, r)
  OBVIOUS
<1>0. p \in s.links
  BY DEF InHand
<1>1. CASE p \in s.peers
  <2>1. r = s
    BY <1>1 DEF CompleteJoin
  <2> HIDE DEF r
  <2>2. Transports(r)
    BY <1>1, <2>1 DEF InHand, Transports
  <2>3. p \in s.links /\ p \notin s.pending
    BY DEF InHand
  <2>4. s.peers \subseteq s.links
    BY DEF InHand
  <2>5. (p = Host /\ s.known /\ ~s.closed /\ (s.bound \/ s.claimed)) => Host \in r.peers
    BY <1>1, <2>1
  <2>6. Landed(s, p, r)
    BY <1>1, <2>1, <2>3, <2>5 DEF Landed, Keeps
  <2> QED BY <2>1, <2>2, <2>6
<1>2. CASE p \notin s.peers /\ ((s.closed /\ p \notin s.back) \/ (~Unlisted(s, p) /\ MeshFull(s)))
  <2>1. r = Cut(s, {p})
    BY <1>2 DEF CompleteJoin, MeshFull, Unlisted
  <2>2. /\ r \in GuestStates /\ Keeps(s, r) /\ r.cut = s.cut \union {p}
        /\ r.peers = s.peers /\ r.pending = s.pending /\ r.bound = s.bound
        /\ r.claimed = s.claimed /\ r.closed = s.closed
    BY <1>0, <2>1, CutIs
  <2> HIDE DEF r
  <2>3. Transports(r)
    BY <2>2 DEF InHand, Transports, Keeps
  <2>4. Listed(r)
    BY <2>2 DEF Listed, Keeps
  <2>5. ~(p = Host /\ s.known /\ ~s.closed /\ (s.bound \/ s.claimed))
    BY <1>2 DEF MeshFull
  <2>6. Landed(s, p, r)
    BY <1>2, <2>2, <2>5 DEF Landed, InHand
  <2> QED BY <2>2, <2>3, <2>4, <2>6
<1>3. CASE p \notin s.peers /\ ~(s.closed /\ p \notin s.back) /\ Unlisted(s, p)
  <2>1. r = Queue(s, p)
    BY <1>3 DEF CompleteJoin
  <2>2. /\ r \in GuestStates /\ Keeps(s, r)
        /\ r.peers = s.peers /\ r.bound = s.bound /\ r.claimed = s.claimed
        /\ r.closed = s.closed
        /\ \/ r.cut = s.cut \union {p} /\ r.pending = s.pending
           \/ r.cut = s.cut /\ r.pending = s.pending \union {p}
    BY <1>0, <1>3, <2>1, QueueIs DEF InHand
  <2> HIDE DEF r
  <2>3. Transports(r)
    BY <1>3, <2>2 DEF InHand, Transports, Keeps
  <2>4. Listed(r)
    BY <2>2 DEF Listed, Keeps
  <2>5. ~(p = Host /\ (s.bound \/ s.claimed))
    BY <1>3 DEF Unlisted, Authority
  <2>6. Landed(s, p, r)
    BY <1>3, <2>2, <2>5 DEF Landed
  <2> QED BY <2>2, <2>3, <2>4, <2>6
<1>4. CASE p \notin s.peers /\ ~(s.closed /\ p \notin s.back) /\ ~Unlisted(s, p) /\ ~MeshFull(s)
  <2>1. r = AdmitPeer(s, p)
    BY <1>4 DEF CompleteJoin
  <2>2. /\ r \in GuestStates /\ Keeps(s, r) /\ r.cut = s.cut
        /\ r.peers = s.peers \union {p} /\ r.pending = s.pending 
        /\ (r.bound <=> s.bound \/ (s.claimed /\ p = Host))
        /\ (r.claimed <=> s.claimed /\ p # Host)
        /\ (r.closed <=> s.closed /\ ~(p = Host /\ r.bound /\ s.authed))
    BY <2>1, AdmitIs
  <2> HIDE DEF r
  <2>3. Transports(r)
    BY <1>4, <2>2 DEF InHand, Transports, Keeps
  <2>4. Listed(r)
    <3>1. s.known => p \in s.roster \union {Host}
      BY <1>4 DEF Unlisted, Authority
    <3>2. ~s.known => Fits(s.peers \union {p})
      BY <1>4, FitsOneMore DEF MeshFull, GuestStates
    <3> QED BY <2>2, <3>1, <3>2 DEF Listed, Keeps
  <2>5. Landed(s, p, r)
    BY <1>4, <2>2 DEF Landed, InHand
  <2> QED BY <2>2, <2>3, <2>4, <2>5
<1> HIDE DEF r
<1> QED BY <1>1, <1>2, <1>3, <1>4

(* Resolving a waiting transport handles it; one that does not wait is left *)
(* alone.                                                                   *)
LEMMA ResolveIs ==
  ASSUME NEW s \in GuestStates, NEW p \in Ids, Transports(s), Listed(s)
  PROVE  LET r == Resolve(p, s)
         IN  /\ r \in GuestStates /\ Transports(r) /\ Listed(r)
             /\ p \notin s.pending => r = s
             /\ p \in s.pending => Landed([s EXCEPT !.pending = @ \ {p}], p, r)
<1> DEFINE t == [s EXCEPT !.pending = @ \ {p}]
<1>1. CASE p \notin s.pending
  BY <1>1 DEF Resolve
<1>2. CASE p \in s.pending
  <2>1. /\ t \in GuestStates /\ Keeps(s, t) /\ t.peers = s.peers /\ t.cut = s.cut
        /\ t.pending = s.pending \ {p} /\ t.bound = s.bound
    BY DEF GuestStates, Keeps
  <2>2. Resolve(p, s) = CompleteJoin(t, p)
    BY <1>2 DEF Resolve
  <2> HIDE DEF t
  <2>3. InHand(t, p)
    BY <1>2, <2>1 DEF InHand, Transports, Keeps
  <2>4. Listed(t)
    BY <2>1 DEF Listed, Keeps
  <2>5. /\ CompleteJoin(t, p) \in GuestStates /\ Transports(CompleteJoin(t, p))
        /\ Listed(CompleteJoin(t, p)) /\ Landed(t, p, CompleteJoin(t, p))
    BY <2>1, <2>3, <2>4, CompleteIs
  <2> QED BY <1>2, <2>2, <2>5 DEF t
<1> QED BY <1>1, <1>2

----------------------------------------------------------------------------
(* A roster.                                                                *)

(* What the waiting transports it names may turn u into, one by one.        *)
Fillings(u) ==
  {r \in GuestStates :
     /\ Transports(r) /\ Listed(r) /\ Keeps(u, r) /\ r.bound
     /\ u.peers \subseteq r.peers
     /\ Host \notin r.cut
     /\ r.cut \subseteq u.cut \union u.pending
     /\ r.pending \subseteq u.pending
     /\ r.closed => u.closed
     /\ Host \in u.peers => (r.closed <=> u.closed)
     /\ r.closed => r.peers \subseteq u.peers \union u.back}

(* A guest of a verified host whose roster it has just taken over.          *)
Opened(u) ==
  /\ u \in GuestStates /\ Transports(u) /\ Listed(u)
  /\ u.known /\ u.bound /\ Host \notin u.cut
  /\ u.closed => Host \in u.peers

(* Resolving one more transport is one more step of the filling, and the    *)
(* host ends up in the mesh.                                                *)
LEMMA FillingResolve ==
  ASSUME NEW u, Opened(u), NEW r \in Fillings(u), NEW x \in Ids
  PROVE  /\ Resolve(x, r) \in Fillings(u)
         /\ x = Host /\ Host \in u.links => Host \in Resolve(x, r).peers
         /\ Host \in r.peers => Host \in Resolve(x, r).peers
<1> DEFINE q == Resolve(x, r)
           t == [r EXCEPT !.pending = @ \ {x}]
<1>1. /\ r \in GuestStates /\ Transports(r) /\ Listed(r) /\ Keeps(u, r) /\ r.bound
      /\ u.peers \subseteq r.peers /\ Host \notin r.cut
      /\ r.cut \subseteq u.cut \union u.pending /\ r.pending \subseteq u.pending
      /\ r.closed => u.closed
      /\ Host \in u.peers => (r.closed <=> u.closed)
      /\ r.closed => r.peers \subseteq u.peers \union u.back
  BY DEF Fillings
<1>2. /\ q \in GuestStates /\ Transports(q) /\ Listed(q)
      /\ x \notin r.pending => q = r
      /\ x \in r.pending => Landed(t, x, q)
  BY <1>1, ResolveIs
<1>3. /\ Keeps(r, t) /\ t.peers = r.peers /\ t.cut = r.cut /\ t.bound = r.bound
      /\ t.closed = r.closed /\ t.pending = r.pending \ {x} /\ t.claimed = r.claimed
  BY <1>1 DEF GuestStates, Keeps
<1> SUFFICES /\ q \in Fillings(u)
             /\ x = Host /\ Host \in u.links => Host \in q.peers
             /\ Host \in r.peers => Host \in q.peers
  OBVIOUS
<1> HIDE DEF q, t
<1>4. CASE x \notin r.pending
  <2>1. q = r
    BY <1>2, <1>4
  <2>2. Host \in u.links => Host \in r.peers \union r.pending
    BY <1>1 DEF Transports, Keeps
  <2> QED BY <1>4, <2>1, <2>2
<1>5. CASE x \in r.pending
  <2>1. /\ Keeps(t, q) /\ t.peers \subseteq q.peers /\ q.peers \subseteq t.peers \union {x}
        /\ q.cut \subseteq t.cut \union {x} /\ q.pending \subseteq t.pending \union {x}
        /\ t.bound => q.bound
        /\ q.closed => t.closed
        /\ x # Host => (q.closed <=> t.closed)
        /\ x \in q.peers \ t.peers => ~(t.closed /\ x \notin t.back)
        /\ (x = Host /\ t.known /\ ~t.closed /\ (t.bound \/ t.claimed))
             => Host \in q.peers /\ (Host \in q.cut => Host \in t.cut)
    BY <1>2, <1>5 DEF Landed
  <2>2. t.known /\ t.bound /\ t.back = u.back
    BY <1>1, <1>3 DEF Opened, Keeps
  <2>3. x = Host => ~t.closed
    BY <1>1, <1>3, <1>5 DEF Opened, Transports
  <2>4. x = Host => Host \in q.peers
    BY <2>1, <2>2, <2>3
  <2>5. Keeps(u, q)
    BY <1>1, <1>3, <2>1 DEF Keeps
  <2>6. q.bound /\ u.peers \subseteq q.peers /\ Host \notin q.cut /\ (q.closed => u.closed)
    BY <1>1, <1>3, <2>1, <2>2, <2>3
  <2>7. q.closed => q.peers \subseteq u.peers \union u.back
    BY <1>1, <1>3, <2>1, <2>2
  <2>8. Host \in u.peers => (q.closed <=> u.closed)
    BY <1>1, <1>3, <1>5, <2>1 DEF Transports
  <2>9. q.cut \subseteq u.cut \union u.pending /\ q.pending \subseteq u.pending
    BY <1>1, <1>3, <1>5, <2>1
  <2> QED BY <1>2, <1>3, <2>1, <2>4, <2>5, <2>6, <2>7, <2>8, <2>9 DEF Fillings
<1> QED BY <1>4, <1>5

(* So is resolving all of them, in whatever order the fold takes them.      *)
LEMMA ResolveAllIs ==
  ASSUME NEW u, Opened(u), NEW ids \in SUBSET Ids,
         Host \in u.pending => Host \in ids
  PROVE  /\ ResolveAll(u, ids) \in Fillings(u)
         /\ Host \in u.links => Host \in ResolveAll(u, ids).peers
<1> DEFINE J == Fillings(u)
           K == {r \in J : Host \in r.peers}
           f == FoldSet(Resolve, u, ids)
<1>1. IsFiniteSet(ids) /\ RF!IsFiniteSet(ids)
  BY IdsFinite DEF RF!IsFiniteSet, IsFiniteSet
<1>2. u \in J
  BY DEF Opened, Fillings, Keeps
<1>3. RF!FoldSet(Resolve, u, ids) = f
  BY DEF RF!FoldSet, FoldSet, RF!MapThenFoldSet, MapThenFoldSet
<1>4. ResolveAll(u, ids) = f
  BY DEF ResolveAll
<1> HIDE DEF J, f
<1>5. \A x \in ids, r \in J : Resolve(x, r) \in J
  BY FillingResolve DEF J
<1>6. f \in J
  BY <1>1, <1>2, <1>3, <1>5, RF!FoldKeeps
<1>7. CASE Host \notin u.links
  BY <1>4, <1>6, <1>7 DEF J
<1>8. CASE Host \in u.peers
  <2>1. \A r \in J : Host \in r.peers
    BY <1>8 DEF J, Fillings
  <2> QED BY <1>4, <1>6, <2>1 DEF J
<1>9. CASE Host \in u.links /\ Host \notin u.peers
  <2>1. Host \in ids
    BY <1>9 DEF Opened, Transports
  <2>2. \A r \in J : Resolve(Host, r) \in K
    BY <1>9, FillingResolve DEF J, Ids
  <2>3. \A x \in ids, r \in K : Resolve(x, r) \in K
    BY FillingResolve DEF J
  <2>4. K \in SUBSET J
    OBVIOUS
  <2> HIDE DEF K
  <2>5. f \in K
    BY <1>1, <1>2, <1>3, <1>5, <2>1, <2>2, <2>3, <2>4, RF!FoldMeets
  <2> QED BY <1>4, <2>5 DEF J, K
<1> QED BY <1>7, <1>8, <1>9

(* s after the roster m, under a verified host.                             *)
Accepted(s, m, r) ==
  /\ r \in GuestStates /\ r.self = s.self /\ r.authed /\ r.bound
  /\ r.live <=> s.live /\ s.self \in m.ids
  /\ r.live => /\ r.full = s.full /\ r.pending \subseteq s.pending
               /\ r.cut \subseteq s.cut \union s.pending \union (s.peers \ (m.ids \union {Host}))
  /\ r.live => /\ Transports(r) /\ Listed(r)
               /\ r.known /\ r.rev = m.rev /\ r.roster = m.ids
               /\ r.early = s.early /\ r.back = s.back /\ r.links = s.links
               /\ s.peers \subseteq r.peers
               /\ Host \notin r.cut
               /\ Host \in r.links => Host \in r.peers
               /\ r.closed => s.closed
               /\ Host \in s.peers => (r.closed <=> s.closed)
               /\ r.closed => r.peers \subseteq s.peers \union s.back

(* A roster that is accepted: the mesh is within it, or the guest ends.     *)
LEMMA AcceptIs ==
  ASSUME NEW s \in GuestStates, Transports(s), Listed(s), s.authed, s.bound,
         Host \notin s.cut, s.closed => Host \in s.peers,
         NEW m \in [rev : Nat, ids : SUBSET Guests], Fits(m.ids)
  PROVE  Accepted(s, m, Accept(s, m))
<1> DEFINE t == [s EXCEPT !.roster = m.ids, !.rev = m.rev, !.known = TRUE]
           out == t.peers \ (m.ids \union Authority(t))
           u == Cut(t, out)
           r == ResolveAll(u, t.pending \intersect (m.ids \union {Host}))
<1>1. /\ t \in GuestStates /\ t.roster = m.ids /\ t.rev = m.rev /\ t.known
      /\ t.live = s.live /\ t.links = s.links /\ t.authed = s.authed /\ t.back = s.back
      /\ t.early = s.early /\ t.ended = s.ended /\ t.peers = s.peers /\ t.cut = s.cut
      /\ t.pending = s.pending /\ t.bound = s.bound /\ t.closed = s.closed
      /\ t.self = s.self /\ t.full = s.full
  BY DEF GuestStates
<1>2. CASE s.self \notin m.ids
  <2>1. Accept(s, m) = End(t, "authority")
    BY <1>2 DEF Accept, GuestStates
  <2> HIDE DEF t
  <2>2. /\ End(t, "authority") \in GuestStates /\ End(t, "authority").authed = t.authed
        /\ End(t, "authority").self = t.self
        /\ End(t, "authority").bound = t.bound /\ ~End(t, "authority").live
    BY <1>1, EndIs
  <2> QED BY <1>1, <1>2, <2>1, <2>2 DEF Accepted
<1>3. CASE s.self \in m.ids
  <2>1. Accept(s, m) = r
    BY <1>3 DEF Accept, GuestStates
  <2>2. Authority(t) = {Host} /\ out \in SUBSET Ids /\ Host \notin out
    BY <1>1 DEF Authority, GuestStates
  <2>3. \A p \in out : p \in s.peers
    BY <1>1
  <2>4. /\ s.peers \subseteq m.ids \union {Host} \union out
        /\ out = s.peers \ (m.ids \union {Host})
    BY <1>1, <2>2
  <2> HIDE DEF t, out
  <2>5. /\ u \in GuestStates /\ Keeps(t, u) /\ u.cut = t.cut \union (out \intersect t.links)
        /\ u.peers = t.peers /\ u.pending = t.pending /\ u.bound = t.bound
        /\ u.claimed = t.claimed /\ u.closed = t.closed
    BY <1>1, <2>2, CutIs
  <2> HIDE DEF u
  <2>6. Transports(u)
    BY <1>1, <2>3, <2>5 DEF Transports, Keeps
  <2>7. Listed(u)
    BY <1>1, <1>3, <2>3, <2>4, <2>5, <2>6 DEF Listed, Transports, Keeps
  <2>8. Opened(u)
    BY <1>1, <2>2, <2>5, <2>6, <2>7 DEF Opened, Keeps
  <2>9. /\ t.pending \intersect (m.ids \union {Host}) \in SUBSET Ids
        /\ Host \in u.pending => Host \in t.pending \intersect (m.ids \union {Host})
    BY <1>1, <2>5 DEF GuestStates
  <2>10. r \in Fillings(u) /\ (Host \in u.links => Host \in r.peers)
    BY <2>8, <2>9, ResolveAllIs
  <2> HIDE DEF r
  <2>11. /\ r \in GuestStates /\ Transports(r) /\ Listed(r) /\ Keeps(u, r) /\ r.bound
         /\ u.peers \subseteq r.peers /\ Host \notin r.cut
         /\ r.cut \subseteq u.cut \union u.pending /\ r.pending \subseteq u.pending
         /\ r.closed => u.closed
         /\ Host \in u.peers => (r.closed <=> u.closed)
         /\ r.closed => r.peers \subseteq u.peers \union u.back
    BY <2>10 DEF Fillings
  <2>12. r.live = s.live /\ r.full = s.full /\ r.pending \subseteq s.pending
    BY <1>1, <2>5, <2>11 DEF Keeps
  <2>13. r.cut \subseteq s.cut \union s.pending \union (s.peers \ (m.ids \union {Host}))
    BY <1>1, <2>4, <2>5, <2>11
  <2> QED BY <1>1, <1>3, <2>1, <2>5, <2>10, <2>11, <2>12, <2>13 DEF Accepted, Keeps
<1> QED BY <1>2, <1>3

(* r, s after the session's host said something: how the transports stand   *)
(* and what revision is held.                                               *)
Told(s, m, r) ==
  /\ r \in GuestStates /\ r.self = s.self
  /\ r.live => /\ Sound(r) /\ r.full = s.full
               /\ Host \notin r.cut /\ r.links = s.links
               /\ r.rev \in {s.rev, m.rev} /\ r.early \in {s.early, NoMessage, m}
               /\ s.closed => r.peers \subseteq s.peers \union s.back
  /\ r.ended # "no" => r.authed

(* A verified host's roster decides: who is on it goes on, without the      *)
(* transports it excludes; who is not ends.                                 *)
Heeded(s, m, r) ==
  ~Stale(s, m) /\ (s.closed => Host \in s.peers) =>
    /\ r.live <=> s.self \in m.ids
    /\ r.live => /\ r.known
                 /\ r.cut \subseteq s.cut \union s.pending
                                     \union (s.peers \ (m.ids \union {Host}))

(* applyRosterPayload: kept for later, dropped as stale, or accepted.       *)
LEMMA ApplyRosterIs ==
  ASSUME NEW s \in GuestStates, s.live, Sound(s), s.authed, Host \notin s.cut,
         NEW m \in Rosters, Fits(m.ids)
  PROVE  /\ Told(s, m, ApplyRoster(s, m)) /\ ApplyRoster(s, m).authed
         /\ Heeded(s, m, ApplyRoster(s, m))
<1> DEFINE t == [s EXCEPT !.fallback = FALSE]
           b == [t EXCEPT !.bound = TRUE]
           c == [t EXCEPT !.claimed = TRUE]
           u == Accept(b, m)
           o == [u EXCEPT !.closed = @ /\ ~(u.live /\ u.authed)]
           r == ApplyRoster(s, m)
<1> SUFFICES Told(s, m, r) /\ r.authed /\ Heeded(s, m, r)
  OBVIOUS
<1>0. m \in [rev : Nat, ids : SUBSET Guests]
  BY DEF Rosters
<1>2. s.bound
  BY DEF Sound, Listed
<1>1. \A x \in {t, b, c} :
        /\ x \in GuestStates /\ Keeps(s, x) /\ x.peers = s.peers /\ x.pending = s.pending
        /\ x.cut = s.cut /\ x.closed = s.closed /\ x.bound
  <2> DEFINE Same(x) ==
        /\ x \in GuestStates /\ Keeps(s, x) /\ x.peers = s.peers /\ x.pending = s.pending
        /\ x.cut = s.cut /\ x.closed = s.closed /\ x.bound
  <2>1. Same(t)
    BY <1>2 DEF GuestStates, Keeps
  <2>2. Same(b)
    BY <1>2 DEF GuestStates, Keeps
  <2>3. Same(c)
    BY <1>2 DEF GuestStates, Keeps
  <2> HIDE DEF t, b, c
  <2> QED BY <2>1, <2>2, <2>3
<1>3. \A x \in {t, b, c} : Sound(x) /\ Transports(x) /\ Listed(x) /\ Told(s, m, x) /\ x.authed
  <2> SUFFICES ASSUME NEW x \in {t, b, c}
               PROVE  Sound(x) /\ Transports(x) /\ Listed(x) /\ Told(s, m, x) /\ x.authed
    OBVIOUS
  <2>1. /\ x \in GuestStates /\ Keeps(s, x) /\ x.peers = s.peers /\ x.pending = s.pending
        /\ x.cut = s.cut /\ x.closed = s.closed /\ x.bound
    BY <1>1
  <2> HIDE DEF t, b, c
  <2>2. Transports(x)
    BY <2>1 DEF Sound, Transports, Keeps
  <2>3. Listed(x)
    BY <2>1 DEF Sound, Listed, Keeps
  <2>4. Door(x) /\ Announced(x)
    BY <2>1 DEF Sound, Door, Announced, Keeps
  <2> QED BY <2>1, <2>2, <2>3, <2>4 DEF Sound, Told, Keeps, Transports
<1>4. Fits(s.early.ids) /\ s.early = NoMessage
  BY DEF Sound, Announced
<1>5. CASE Host \in s.peers /\ ~Stale(s, m)
  <2>1. r = o
    BY <1>5 DEF ApplyRoster
  <2>2. Accepted(b, m, u)
    BY <1>0, <1>1, <1>3, <1>5, AcceptIs
  <2>3. Keeps(s, b) /\ b.peers = s.peers /\ b.closed = s.closed
    BY <1>1
  <2>9. b.cut = s.cut /\ b.pending = s.pending
    BY <1>1
  <2> HIDE DEF b, u
  <2>4. /\ o \in GuestStates /\ Keeps(u, o) /\ o.peers = u.peers /\ o.pending = u.pending
        /\ o.cut = u.cut /\ o.bound = u.bound /\ (o.live => ~o.closed)
    <3> DEFINE e == u.closed /\ ~(u.live /\ u.authed)
    <3>1. u \in GuestStates /\ u.authed
      BY <2>2 DEF Accepted
    <3>2. o = [u EXCEPT !.closed = e] /\ e \in BOOLEAN
      OBVIOUS
    <3>3. u.live => ~e
      BY <3>1
    <3> HIDE DEF e, o
    <3>4. o \in GuestStates
      BY <3>1, <3>2 DEF GuestStates
    <3>5. o.closed = e
      BY <3>1, <3>2 DEF GuestStates
    <3>6. /\ Keeps(u, o) /\ o.peers = u.peers /\ o.pending = u.pending /\ o.cut = u.cut
          /\ o.bound = u.bound /\ o.live = u.live
      BY <3>1, <3>2 DEF GuestStates, Keeps
    <3> QED BY <3>3, <3>4, <3>5, <3>6
  <2> HIDE DEF o, r
  <2>5. ASSUME o.live PROVE Sound(o)
    <3>1. Transports(o)
      BY <2>2, <2>4, <2>5 DEF Accepted, Transports, Keeps
    <3>2. Listed(o)
      BY <2>2, <2>4, <2>5 DEF Accepted, Listed, Keeps
    <3>3. Door(o) /\ Announced(o)
      BY <1>4, <2>2, <2>3, <2>4, <2>5 DEF Accepted, Door, Announced, Keeps
    <3> QED BY <3>1, <3>2, <3>3 DEF Sound
  <2>6. o.live /\ s.closed => o.peers \subseteq s.peers \union s.back
    BY <1>5, <2>2, <2>3, <2>4 DEF Accepted, Keeps
  <2>7. /\ o.live <=> s.self \in m.ids
        /\ o.live => o.full = s.full /\ o.known
    BY <2>2, <2>3, <2>4 DEF Accepted, Keeps
  <2>8. o.live => o.cut \subseteq s.cut \union s.pending \union (s.peers \ (m.ids \union {Host}))
    BY <1>1, <2>2, <2>3, <2>4, <2>9 DEF Accepted, Keeps
  <2>10. Told(s, m, o) /\ o.authed
    BY <2>2, <2>3, <2>4, <2>5, <2>6, <2>7 DEF Told, Accepted, Keeps
  <2> QED BY <2>1, <2>7, <2>8, <2>10 DEF Heeded
<1>6. CASE Host \notin s.peers /\ ~s.closed /\ ~Stale(s, m)
  <2> DEFINE v == Accept(c, m)
  <2>1. r = v
    BY <1>6 DEF ApplyRoster
  <2>2. Accepted(c, m, v)
    BY <1>0, <1>1, <1>3, <1>6, AcceptIs
  <2>3. /\ Keeps(s, c) /\ c.peers = s.peers /\ c.closed = s.closed
        /\ c.cut = s.cut /\ c.pending = s.pending
    BY <1>1
  <2> HIDE DEF c, v, r
  <2>4. ASSUME v.live PROVE Sound(v)
    BY <1>4, <1>6, <2>2, <2>3, <2>4 DEF Accepted, Sound, Door, Announced, Keeps
  <2>5. /\ v.live <=> s.self \in m.ids
        /\ v.live => v.full = s.full /\ v.known
        /\ v.live => v.cut \subseteq s.cut \union s.pending
                                      \union (s.peers \ (m.ids \union {Host}))
    BY <2>2, <2>3 DEF Accepted, Keeps
  <2>6. Told(s, m, v) /\ v.authed
    BY <1>6, <2>2, <2>3, <2>4, <2>5 DEF Told, Accepted, Keeps
  <2> QED BY <2>1, <2>5, <2>6 DEF Heeded
<1>7. CASE Stale(s, m) \/ (Host \notin s.peers /\ s.closed)
  <2>1. r \in {t, b, c}
    BY <1>7 DEF ApplyRoster
  <2> HIDE DEF t, b, c, r
  <2>2. Heeded(s, m, r)
    BY <1>7 DEF Heeded
  <2> QED BY <1>3, <2>1, <2>2
<1> HIDE DEF t, b, c, u, o, r
<1> QED BY <1>5, <1>6, <1>7

(* A callback of a live guest s that leaves it as r.                        *)
Reacts(s, r) ==
  /\ r \in GuestStates /\ r.self = s.self
  /\ r.live => Sound(r)
  /\ s.known /\ r.ended # "no" => s.authed \/ r.authed
  /\ s.known /\ s.closed /\ ~s.authed /\ r.live
       => r.peers \subseteq s.peers \union s.roster \union {Host}

(* What Sound speaks of does not depend on the claims and timers.           *)
LEMMA SoundIfSame ==
  ASSUME NEW s, Sound(s), NEW x, Keeps(s, x), x.peers = s.peers, x.pending = s.pending,
         x.cut = s.cut, x.bound = s.bound
  PROVE  /\ x.closed = s.closed => Sound(x)
         /\ ~x.closed => Sound(x)
BY DEF Sound, Transports, Listed, Door, Announced, Keeps

(* A roster message, from a verified host or not.                           *)
LEMMA RosterIs ==
  ASSUME NEW s \in GuestStates, s.live, Sound(s), Host \notin s.cut,
         NEW m \in Rosters, Fits(m.ids)
  PROVE  LET r == OnRoster(s, m)
         IN  /\ Told(s, m, r) /\ Reacts(s, r) /\ (r.authed <=> s.authed)
             /\ s.authed => Heeded(s, m, r)
             /\ ~s.authed => r.live /\ r.early = m /\ r.cut = s.cut /\ (r.known <=> s.known)
<1> DEFINE r == OnRoster(s, m)
           Heard(x) ==
             /\ Told(s, m, x) /\ Reacts(s, x) /\ (x.authed <=> s.authed)
             /\ s.authed => Heeded(s, m, x)
             /\ ~s.authed => x.live /\ x.early = m /\ x.cut = s.cut /\ (x.known <=> s.known)
<1> SUFFICES Heard(r)
  OBVIOUS
<1>1. CASE s.authed
  <2>1. r = ApplyRoster(s, m)
    BY <1>1 DEF OnRoster
  <2>2. Told(s, m, r) /\ r.authed /\ Heeded(s, m, r)
    BY <1>1, <2>1, ApplyRosterIs
  <2> HIDE DEF r
  <2> QED BY <1>1, <2>2 DEF Told, Reacts
<1>2. CASE ~s.authed
  <2>1. r = [s EXCEPT !.early = m]
    BY <1>2 DEF OnRoster
  <2>2. m \in Messages
    BY DEF Messages
  <2>3. /\ r \in GuestStates /\ r.early = m /\ r.self = s.self /\ r.live = s.live /\ r.links = s.links
        /\ r.cut = s.cut /\ r.peers = s.peers /\ r.pending = s.pending /\ r.bound = s.bound
        /\ r.authed = s.authed /\ r.roster = s.roster /\ r.known = s.known
        /\ r.rev = s.rev /\ r.closed = s.closed /\ r.back = s.back /\ r.ended = s.ended
        /\ r.full = s.full
    BY <2>1, <2>2 DEF GuestStates
  <2> HIDE DEF r
  <2>4. Sound(r)
    BY <1>2, <2>3 DEF Sound, Transports, Listed, Door, Announced
  <2> QED BY <1>2, <2>3, <2>4 DEF Told, Reacts, Sound, Transports
<1> QED BY <1>1, <1>2

(* The notice that the session is full.                                     *)
LEMMA NoticeIs ==
  ASSUME NEW s \in GuestStates, s.live, Sound(s)
  PROVE  LET r == OnSessionFull(s)
         IN  /\ Reacts(s, r) /\ (r.live <=> ~s.authed)
             /\ r.live => /\ r.links = s.links /\ r.cut = s.cut /\ r.rev = s.rev
                          /\ r.early = s.early /\ r.full /\ ~r.authed /\ (r.known <=> s.known)
<1> DEFINE r == OnSessionFull(s)
           f == [s EXCEPT !.full = TRUE]
           Noticed(x) ==
             /\ Reacts(s, x) /\ (x.live <=> ~s.authed)
             /\ x.live => /\ x.links = s.links /\ x.cut = s.cut /\ x.rev = s.rev
                          /\ x.early = s.early /\ x.full /\ ~x.authed /\ (x.known <=> s.known)
<1> SUFFICES Noticed(r)
  OBVIOUS
<1>1. CASE s.authed
  <2>1. r = End(s, "full")
    BY <1>1 DEF OnSessionFull
  <2>2. r \in GuestStates /\ ~r.live /\ r.authed /\ r.self = s.self
    BY <1>1, <2>1, EndIs
  <2> HIDE DEF r
  <2> QED BY <1>1, <2>2 DEF Reacts
<1>2. CASE ~s.authed
  <2>1. r = f
    BY <1>2 DEF OnSessionFull
  <2>2. /\ f \in GuestStates /\ f.self = s.self /\ f.live = s.live /\ f.links = s.links
        /\ f.authed = s.authed /\ f.roster = s.roster /\ f.known = s.known /\ f.rev = s.rev
        /\ f.back = s.back /\ f.early = s.early /\ f.ended = s.ended /\ f.full
        /\ f.peers = s.peers /\ f.pending = s.pending
        /\ f.cut = s.cut /\ f.bound = s.bound /\ f.closed = s.closed
    BY DEF GuestStates
  <2> HIDE DEF r, f
  <2>3. Sound(f)
    BY <2>2 DEF Sound, Transports, Listed, Door, Announced
  <2>4. Reacts(s, f)
    BY <2>2, <2>3 DEF Reacts, Sound, Transports
  <2> QED BY <1>2, <2>1, <2>2, <2>4
<1> QED BY <1>1, <1>2

(* The hello of the host, with the roster that came before it.              *)
LEMMA HelloIs ==
  ASSUME NEW s \in GuestStates, s.live, Sound(s), Host \notin s.cut
  PROVE  LET r == OnHostHello(s)
         IN  /\ Told(s, s.early, r) /\ Reacts(s, r) /\ r.authed
             /\ s.authed => r = s
             /\ ~s.authed /\ s.full => ~r.live
             /\ ~s.authed /\ ~s.full /\ s.early # NoMessage => Heeded(s, s.early, r)
             /\ ~s.authed /\ ~s.full /\ s.early = NoMessage
                  => r.live /\ r.cut = s.cut /\ (r.known <=> s.known)
<1> DEFINE r == OnHostHello(s)
           t == [s EXCEPT !.bound = TRUE, !.authed = TRUE]
           e == [t EXCEPT !.early = NoMessage]
           o == [t EXCEPT !.closed = FALSE]
           f == [t EXCEPT !.fallback = TRUE]
           Greeted(x) ==
             /\ Told(s, s.early, x) /\ Reacts(s, x) /\ x.authed
             /\ s.authed => x = s
             /\ ~s.authed /\ s.full => ~x.live
             /\ ~s.authed /\ ~s.full /\ s.early # NoMessage => Heeded(s, s.early, x)
             /\ ~s.authed /\ ~s.full /\ s.early = NoMessage
                  => x.live /\ x.cut = s.cut /\ (x.known <=> s.known)
<1> SUFFICES Greeted(r)
  OBVIOUS
<1>1. CASE s.authed
  <2>1. r = s
    BY <1>1 DEF OnHostHello
  <2>2. s.early = NoMessage
    BY <1>1 DEF Sound, Announced
  <2> HIDE DEF r
  <2> QED BY <1>1, <2>1, <2>2 DEF Told, Reacts, Sound, Transports
<1>2. CASE ~s.authed
  <2> DEFINE Like(x) ==
        /\ x \in GuestStates /\ x.bound /\ x.authed /\ x.self = s.self
        /\ x.live = s.live /\ x.links = s.links /\ x.cut = s.cut /\ x.peers = s.peers
        /\ x.pending = s.pending /\ x.roster = s.roster /\ x.known = s.known
        /\ x.rev = s.rev /\ x.back = s.back /\ x.ended = s.ended
        /\ x.early \in {s.early, NoMessage} /\ x.full = s.full
        /\ x.closed => s.closed
  <2>1. Like(t) /\ t.closed = s.closed
    BY DEF GuestStates
  <2>2. Like(f)
    BY DEF GuestStates
  <2>3. Like(o)
    BY DEF GuestStates
  <2>4. Like(e) /\ e.closed = s.closed /\ e.early = NoMessage
    BY NoMessageTyped DEF GuestStates
  <2>5. s.rev = NoRev
    BY <1>2 DEF Sound, Announced
  <2>6. s.early \in Messages /\ Fits(s.early.ids)
    BY DEF Sound, Announced, GuestStates
  <2>7. ASSUME NEW x, Like(x), x.early = NoMessage
        PROVE  Told(s, s.early, x) /\ Reacts(s, x) /\ Sound(x)
    <3>1. Transports(x) /\ Listed(x) /\ Door(x)
      BY <2>7 DEF Sound, Transports, Listed, Door
    <3>2. Announced(x)
      BY <2>5, <2>6, <2>7, NoMessageTyped DEF Announced
    <3>3. Sound(x)
      BY <3>1, <3>2 DEF Sound
    <3> QED BY <2>7, <3>3 DEF Told, Reacts
  <2>8. CASE s.full
    <3>1. r = End(t, "authority")
      BY <1>2, <2>8 DEF OnHostHello
    <3> HIDE DEF t
    <3>2. r \in GuestStates /\ ~r.live /\ r.authed /\ r.self = s.self
      BY <2>1, <3>1, EndIs
    <3> HIDE DEF r
    <3> QED BY <1>2, <2>8, <3>2 DEF Told, Reacts
  <2>9. CASE ~s.full /\ s.early # NoMessage
    <3>1. r = ApplyRoster(e, s.early)
      BY <1>2, <2>9 DEF OnHostHello
    <3>2. s.early \in Rosters
      BY <2>6, <2>9 DEF Messages
    <3> HIDE DEF e, r
    <3>3. Sound(e)
      BY <2>4, <2>7
    <3>4. Told(e, s.early, r) /\ r.authed /\ Heeded(e, s.early, r)
      BY <2>4, <2>6, <3>1, <3>2, <3>3, ApplyRosterIs
    <3>5. Told(s, s.early, r)
      BY <2>4, <3>4 DEF Told
    <3>7. Heeded(s, s.early, r)
      BY <2>4, <3>4 DEF Heeded, Stale
    <3>6. s.known /\ s.closed => s.back \subseteq s.roster \union {Host}
      BY DEF Sound, Door
    <3>8. Reacts(s, r)
      BY <3>4, <3>5, <3>6 DEF Told, Reacts
    <3> QED BY <1>2, <2>9, <3>4, <3>5, <3>7, <3>8
  <2>10. CASE ~s.full /\ s.early = NoMessage
    <3>1. r = o \/ r = f
      BY <1>2, <2>10 DEF OnHostHello
    <3>2. o.early = s.early /\ f.early = s.early
      BY DEF GuestStates
    <3> HIDE DEF o, f, r
    <3> QED BY <1>2, <2>2, <2>3, <2>7, <2>10, <3>1, <3>2
  <2> QED BY <2>8, <2>9, <2>10
<1> QED BY <1>1, <1>2

(* A callback that no message of the host is part of.                       *)
Moves(s, r) == Reacts(s, r) /\ (r.live => r.rev = s.rev /\ r.early = s.early)

(* What the guest was told is still so.                                     *)
Remembers(s, r) ==
  (r.authed <=> s.authed) /\ (r.known <=> s.known) /\ (r.full <=> s.full)

(* A transport comes up.                                                    *)
LEMMA JoinIs ==
  ASSUME NEW s \in GuestStates, s.live, Sound(s), NEW p \in Ids,
         p \notin s.links, p # s.self
  PROVE  LET r == OnJoin(s, p)
         IN  /\ Moves(s, r) /\ r.live /\ r.links = s.links \union {p}
             /\ Remembers(s, r) /\ r.cut \subseteq s.cut \union {p}
<1> DEFINE r == OnJoin(s, p)
           t == [s EXCEPT !.links = @ \union {p}]
           c == [t EXCEPT !.claimed = TRUE]
           Like(x) ==
             /\ x \in GuestStates /\ x.links = s.links \union {p} /\ x.bound = s.bound
             /\ x.authed = s.authed
             /\ x.live = s.live /\ x.cut = s.cut /\ x.peers = s.peers
             /\ x.pending = s.pending /\ x.roster = s.roster /\ x.known = s.known
             /\ x.rev = s.rev /\ x.back = s.back /\ x.ended = s.ended
             /\ x.early = s.early /\ x.closed = s.closed /\ x.self = s.self
             /\ x.full = s.full
           Joined(q) ==
             /\ Moves(s, q) /\ q.live /\ q.links = s.links \union {p}
             /\ Remembers(s, q) /\ q.cut \subseteq s.cut \union {p}
<1> SUFFICES Joined(r)
  OBVIOUS
<1>1. Like(t) /\ Like(c)
  BY DEF GuestStates
<1>2. p \notin s.peers \union s.pending \union s.cut
  BY DEF Sound, Transports
<1>3. ASSUME NEW x, Like(x) PROVE InHand(x, p) /\ Listed(x)
  <2>1. InHand(x, p)
    BY <1>2, <1>3 DEF Sound, Transports, InHand
  <2>2. Listed(x)
    BY <1>3 DEF Sound, Listed
  <2> QED BY <2>1, <2>2
<1>4. ASSUME NEW x, Like(x), NEW q \in GuestStates, Keeps(x, q), Transports(q), Listed(q),
             q.closed => x.closed, x.peers \subseteq q.peers,
             q.peers \subseteq x.peers \union {p},
             q.cut \subseteq x.cut \union {p},
             q.closed => q.bound /\ Host \notin q.pending,
             p \in q.peers => (x.known => p \in x.roster \union {Host}),
             p = Host /\ x.rev # NoRev => Host \in q.peers
      PROVE  Joined(q)
  <2> HIDE DEF t, c
  <2>1. Door(q)
    BY <1>4 DEF Sound, Door, Keeps
  <2>2. Announced(q)
    BY <1>4 DEF Sound, Announced, Keeps
  <2>3. Reacts(s, q)
    BY <1>4, <2>1, <2>2 DEF Reacts, Sound, Transports, Keeps
  <2> QED BY <1>4, <2>3 DEF Moves, Keeps, Remembers
<1>5. /\ s.rev # NoRev => ~s.closed /\ s.authed /\ s.known /\ s.bound
      /\ s.closed => Host \in s.back /\ s.bound /\ Host \notin s.pending
  BY DEF Sound, Announced, Listed, Door
<1>6. CASE s.closed /\ p \notin s.back
  <2>1. r = Cut(t, {p})
    BY <1>2, <1>6 DEF OnJoin
  <2> HIDE DEF t
  <2>2. /\ r \in GuestStates /\ Keeps(t, r) /\ r.cut = t.cut \union {p}
        /\ r.peers = t.peers /\ r.pending = t.pending /\ r.bound = t.bound
        /\ r.claimed = t.claimed /\ r.closed = t.closed
    BY <1>1, <2>1, CutIs
  <2>3. Transports(r) /\ Listed(r)
    BY <1>1, <1>3, <2>2 DEF InHand, Transports, Listed, Keeps
  <2> HIDE DEF r
  <2> QED BY <1>1, <1>2, <1>4, <1>5, <1>6, <2>2, <2>3
<1>7. CASE /\ ~(s.closed /\ p \notin s.back) /\ r = Queue(t, p)
           /\ ~(p = Host /\ (s.closed \/ s.rev # NoRev))
  <2> HIDE DEF t
  <2>1. p \in t.links /\ p \notin t.peers \union t.pending
    BY <1>1, <1>2
  <2>2. /\ r \in GuestStates /\ Keeps(t, r)
        /\ r.peers = t.peers /\ r.bound = t.bound /\ r.claimed = t.claimed
        /\ r.closed = t.closed
        /\ \/ r.cut = t.cut \union {p} /\ r.pending = t.pending
           \/ r.cut = t.cut /\ r.pending = t.pending \union {p}
    BY <1>1, <1>7, <2>1, QueueIs
  <2> HIDE DEF r
  <2>3. InHand(t, p) /\ Listed(t)
    BY <1>1, <1>3
  <2>4. Transports(r)
    BY <2>1, <2>2, <2>3 DEF InHand, Transports, Keeps
  <2>5. Listed(r)
    BY <2>2, <2>3 DEF Listed, Keeps
  <2>6. /\ r.cut \subseteq t.cut \union {p}
        /\ r.closed => r.bound /\ Host \notin r.pending
    BY <1>1, <1>5, <1>7, <2>2
  <2> QED BY <1>1, <1>4, <1>7, <2>1, <2>2, <2>4, <2>5, <2>6
<1>8. ASSUME NEW x \in {t, c}, r = CompleteJoin(x, p), ~(s.closed /\ p \notin s.back)
      PROVE  Joined(r)
  <2> HIDE DEF t, c
  <2>1. Like(x) /\ InHand(x, p) /\ Listed(x)
    BY <1>1, <1>3, <1>8
  <2>2. r \in GuestStates /\ Transports(r) /\ Listed(r) /\ Landed(x, p, r)
    BY <1>8, <2>1, CompleteIs
  <2> HIDE DEF r
  <2>3. /\ Keeps(x, r) /\ (r.closed => x.closed) /\ x.peers \subseteq r.peers
        /\ r.peers \subseteq x.peers \union {p}
        /\ p \in r.peers \ x.peers => ~Unlisted(x, p)
        /\ (p = Host /\ x.known /\ ~x.closed /\ (x.bound \/ x.claimed)) => Host \in r.peers
        /\ r.cut \subseteq x.cut \union {p} /\ r.pending \subseteq x.pending \union {p}
        /\ x.bound => r.bound
        /\ (p = Host /\ x.closed /\ Host \in x.back /\ x.bound) => Host \notin r.pending
    BY <2>2 DEF Landed
  <2>4. p \in r.peers => (x.known => p \in x.roster \union {Host})
    BY <1>2, <2>1, <2>3 DEF Unlisted, Authority
  <2>5. p = Host /\ x.rev # NoRev => Host \in r.peers
    BY <1>5, <2>1, <2>3
  <2>6. r.closed => r.bound /\ Host \notin r.pending
    BY <1>5, <2>1, <2>3
  <2> QED BY <1>4, <2>1, <2>2, <2>3, <2>4, <2>5, <2>6
<1>9. ~(s.closed /\ p \notin s.back) =>
        \/ r = Queue(t, p) /\ ~(p = Host /\ (s.closed \/ s.rev # NoRev))
        \/ r = CompleteJoin(t, p)
        \/ r = CompleteJoin(c, p)
  BY <1>2, <1>5 DEF OnJoin, Unlisted, Authority
<1> HIDE DEF r, t, c
<1> QED BY <1>6, <1>7, <1>8, <1>9

(* A transport has waited for too long.                                     *)
LEMMA TimeoutIs ==
  ASSUME NEW s \in GuestStates, s.live, Sound(s), NEW p \in s.pending
  PROVE  LET r == OnPendingTimeout(s, p)
         IN  /\ Moves(s, r) /\ r.links = s.links
             /\ s.known \/ s.authed => r.live
             /\ r.live => Remembers(s, r) /\ r.cut \subseteq s.cut \union {p}
<1> DEFINE t == [s EXCEPT !.pending = @ \ {p}]
           u == Cut(t, {p})
           r == OnPendingTimeout(s, p)
           Expired(x) ==
             /\ Moves(s, x) /\ x.links = s.links
             /\ s.known \/ s.authed => x.live
             /\ x.live => Remembers(s, x) /\ x.cut \subseteq s.cut \union {p}
<1> SUFFICES Expired(r)
  OBVIOUS
<1>1. /\ t \in GuestStates /\ Keeps(s, t) /\ t.peers = s.peers /\ t.bound = s.bound
      /\ t.cut = s.cut /\ t.pending = s.pending \ {p} /\ t.closed = s.closed
  BY DEF GuestStates, Keeps
<1>2. p \in Ids /\ p \in s.links
  BY DEF GuestStates, Sound, Transports
<1>7. s.authed => s.bound
  BY DEF Sound, Listed
<1>3. r = u \/ (~s.known /\ ~s.authed /\ r = End(u, "timeout"))
  BY <1>1, <1>7 DEF OnPendingTimeout, Cut, Keeps, GuestStates
<1> HIDE DEF t
<1>4. /\ u \in GuestStates /\ Keeps(t, u) /\ u.cut = t.cut \union {p}
      /\ u.peers = t.peers /\ u.pending = t.pending /\ u.bound = t.bound
      /\ u.closed = t.closed
  <2>1. {p} \intersect t.links = {p} /\ {p} \in SUBSET Ids
    BY <1>1, <1>2 DEF Keeps
  <2> QED BY <1>1, <2>1, CutIs
<1> HIDE DEF u
<1>5. CASE r = u
  <2> HIDE DEF r
  <2>1. Transports(r)
    BY <1>1, <1>2, <1>4, <1>5 DEF Sound, Transports, Keeps
  <2>2. Listed(r)
    BY <1>1, <1>4, <1>5 DEF Sound, Listed, Keeps
  <2>3. Door(r) /\ Announced(r)
    BY <1>1, <1>4, <1>5 DEF Sound, Door, Announced, Keeps
  <2>4. Moves(s, r) /\ r.links = s.links /\ r.live
    BY <1>1, <1>4, <1>5, <2>1, <2>2, <2>3 DEF Moves, Reacts, Sound, Transports, Keeps
  <2> QED BY <1>1, <1>4, <1>5, <2>4 DEF Remembers, Keeps
<1>6. CASE ~s.known /\ ~s.authed /\ r = End(u, "timeout")
  <2>1. r \in GuestStates /\ ~r.live /\ r.links = u.links /\ r.self = u.self
    BY <1>4, <1>6, EndIs
  <2> HIDE DEF r
  <2> QED BY <1>1, <1>4, <1>6, <2>1 DEF Moves, Reacts, Keeps
<1> HIDE DEF r
<1> QED BY <1>3, <1>5, <1>6

(* What the fallback's filling up may turn u into: still without a roster.  *)
Filled(u) == {r \in GuestStates : Transports(r) /\ Listed(r) /\ Keeps(u, r)}

(* Filling the mesh of a session without a host, one transport at a time.   *)
LEMMA FillUpIs ==
  ASSUME NEW u \in GuestStates, NEW r \in Filled(u), NEW x \in Ids
  PROVE  Resolve(x, r) \in Filled(u) /\ FillUp(x, r) \in Filled(u)
<1> DEFINE t == [r EXCEPT !.pending = @ \ {x}]
<1>1. r \in GuestStates /\ Transports(r) /\ Listed(r) /\ Keeps(u, r)
  BY DEF Filled
<1>2. /\ Keeps(r, t) /\ t.peers = r.peers /\ t.cut = r.cut /\ t.bound = r.bound
      /\ t.closed = r.closed /\ t.pending = r.pending \ {x} /\ t \in GuestStates
  BY <1>1 DEF GuestStates, Keeps
<1>3. Resolve(x, r) \in Filled(u)
  <2> DEFINE q == Resolve(x, r)
  <2>1. /\ q \in GuestStates /\ Transports(q) /\ Listed(q)
        /\ x \notin r.pending => q = r
        /\ x \in r.pending => Landed(t, x, q)
    BY <1>1, ResolveIs
  <2> HIDE DEF q, t
  <2>2. Keeps(r, q)
    BY <1>2, <2>1 DEF Landed, Keeps
  <2>3. q \in Filled(u)
    BY <1>1, <2>1, <2>2 DEF Filled, Keeps
  <2> QED BY <2>3 DEF q
<1>4. CASE Cardinality(r.peers) >= MaxRemote
  <2> DEFINE q == Cut(t, {x})
  <2>1. FillUp(x, r) = q
    BY <1>4 DEF FillUp
  <2> HIDE DEF t
  <2>2. /\ q \in GuestStates /\ Keeps(t, q) /\ q.cut = t.cut \union ({x} \intersect t.links)
        /\ q.peers = t.peers /\ q.pending = t.pending /\ q.bound = t.bound
    BY <1>2, CutIs
  <2> HIDE DEF q
  <2>3. Transports(q)
    BY <1>1, <1>2, <2>2 DEF Transports, Keeps
  <2>4. Listed(q)
    BY <1>1, <1>2, <2>2 DEF Listed, Keeps
  <2>5. q \in Filled(u)
    BY <1>1, <1>2, <2>2, <2>3, <2>4 DEF Filled, Keeps
  <2> QED BY <1>3, <2>1, <2>5
<1>5. CASE ~(Cardinality(r.peers) >= MaxRemote)
  BY <1>3, <1>5 DEF FillUp
<1> QED BY <1>3, <1>4, <1>5

(* The fallback when no roster came.                                        *)
LEMMA FallbackIs ==
  ASSUME NEW s \in GuestStates, s.live, Sound(s)
  PROVE  LET r == OnFallback(s)
         IN  /\ Moves(s, r) /\ r.links = s.links
             /\ r.live => Remembers(s, r)
             /\ s.known \/ ~s.authed => r.live /\ r.cut = s.cut
             /\ r.live \/ Crowded(s)
<1> DEFINE t == [s EXCEPT !.fallback = FALSE]
           c == [t EXCEPT !.claimed = TRUE]
           b == Resolve(Host, c)
           f == FoldSet(FillUp, b, s.pending \ {Host})
           o == [f EXCEPT !.closed = FALSE]
           r == OnFallback(s)
           Fallen(x) ==
             /\ Moves(s, x) /\ x.links = s.links
             /\ x.live => Remembers(s, x)
             /\ s.known \/ ~s.authed => x.live /\ x.cut = s.cut
             /\ x.live \/ Crowded(s)
<1> SUFFICES Fallen(r)
  OBVIOUS
<1>1. /\ t \in GuestStates /\ Keeps(s, t) /\ t.peers = s.peers /\ t.bound = s.bound
      /\ t.cut = s.cut /\ t.pending = s.pending /\ t.closed = s.closed
  BY DEF GuestStates, Keeps
<1>2. /\ c \in GuestStates /\ Keeps(s, c) /\ c.peers = s.peers /\ c.bound = s.bound
      /\ c.cut = s.cut /\ c.pending = s.pending
  BY DEF GuestStates, Keeps
<1>3. CASE r = t
  <2> HIDE DEF t, r
  <2>1. Sound(t)
    BY <1>1, SoundIfSame
  <2> QED BY <1>1, <1>3, <2>1 DEF Moves, Reacts, Sound, Transports, Keeps, Remembers
<1>4. CASE s.authed /\ ~s.known /\ Crowded(s) /\ r = End(t, "authority")
  <2> HIDE DEF t
  <2>1. r \in GuestStates /\ ~r.live /\ r.links = t.links /\ r.self = t.self
    BY <1>1, <1>4, EndIs
  <2> HIDE DEF r
  <2> QED BY <1>1, <1>4, <2>1 DEF Moves, Reacts, Keeps
<1>5. CASE s.authed /\ ~s.known /\ r = o
  <2> DEFINE J == Filled(c)
             ids == s.pending \ {Host}
  <2> HIDE DEF t, c
  <2>1. c \in Filled(c)
    BY <1>2 DEF Filled, Sound, Transports, Listed, Keeps
  <2>2. b \in J
    BY <1>2, <2>1, FillUpIs DEF Ids
  <2>3. ids \in SUBSET Ids /\ IsFiniteSet(ids) /\ FF!IsFiniteSet(ids)
    <3>1. ids \in SUBSET Ids
      BY DEF GuestStates
    <3> HIDE DEF ids
    <3> QED BY <3>1, IdsFinite DEF FF!IsFiniteSet, IsFiniteSet
  <2>4. \A x \in ids, q \in J : FillUp(x, q) \in J
    BY <1>2, <2>3, FillUpIs
  <2>5. FF!FoldSet(FillUp, b, ids) = FoldSet(FillUp, b, ids)
    BY DEF FF!FoldSet, FoldSet, FF!MapThenFoldSet, MapThenFoldSet
  <2>6. f = FoldSet(FillUp, b, ids)
    OBVIOUS
  <2> HIDE DEF J, b, ids, f
  <2>12. FoldSet(FillUp, b, ids) \in J
    <3>1. FF!FoldSet(FillUp, b, ids) \in J
      BY <2>2, <2>3, <2>4, FF!FoldKeeps
    <3> QED BY <2>5, <3>1
  <2>7. f \in GuestStates /\ Transports(f) /\ Listed(f) /\ Keeps(c, f)
    BY <2>6, <2>12 DEF J, Filled
  <2>8. /\ o \in GuestStates /\ Keeps(f, o) /\ o.peers = f.peers /\ o.bound = f.bound
        /\ o.cut = f.cut /\ o.pending = f.pending /\ ~o.closed
    BY <2>7 DEF GuestStates, Keeps
  <2> HIDE DEF o, r
  <2>9. Transports(o)
    BY <2>7, <2>8 DEF Transports, Keeps
  <2>10. Listed(o)
    BY <2>7, <2>8 DEF Listed, Keeps
  <2>11. Door(o) /\ Announced(o)
    BY <1>2, <1>5, <2>7, <2>8 DEF Sound, Door, Announced, Keeps
  <2>13. Moves(s, o) /\ o.links = s.links
    BY <1>2, <1>5, <2>7, <2>8, <2>9, <2>10, <2>11 DEF Moves, Reacts, Sound, Transports, Keeps
  <2>14. Remembers(s, o)
    BY <1>2, <2>7, <2>8 DEF Remembers, Keeps
  <2>15. o.live
    BY <1>2, <2>7, <2>8 DEF Keeps
  <2> QED BY <1>5, <2>13, <2>14, <2>15
<1>6. \/ r = t
      \/ s.authed /\ ~s.known /\ Crowded(s) /\ r = End(t, "authority")
      \/ s.authed /\ ~s.known /\ r = o
  BY DEF OnFallback
<1> HIDE DEF r, t, o
<1> QED BY <1>3, <1>4, <1>5, <1>6

(* A transport goes down; with that of the host, the guest freezes its      *)
(* mesh, or ends if it still waited.                                        *)
LEMMA LeaveIs ==
  ASSUME NEW s \in GuestStates, s.live, Sound(s), NEW p \in s.links
  PROVE  LET r == OnLeave(s, p)
         IN  /\ Reacts(s, r)
             /\ r.live => /\ r.links = s.links \ {p}
                          /\ p = Host => r.rev = NoRev /\ r.early = NoMessage /\ ~r.full
                          /\ p # Host => /\ r.rev = s.rev /\ r.early = s.early
                                         /\ Remembers(s, r) /\ r.cut \subseteq s.cut
             /\ p # Host \/ s.known => r.live
             /\ s.known => r.cut \subseteq s.cut \union ((s.pending \union s.peers) \ s.roster)
<1> DEFINE y == IF p = Host THEN NoMessage ELSE s.early
           g == s.full /\ p # Host
           t == [s EXCEPT !.links = @ \ {p}, !.cut = @ \ {p}, !.peers = @ \ {p},
                          !.pending = @ \ {p}, !.early = y, !.full = g]
           r == OnLeave(s, p)
           Gone(q) ==
             /\ Reacts(s, q)
             /\ q.live => /\ q.links = s.links \ {p}
                          /\ p = Host => q.rev = NoRev /\ q.early = NoMessage /\ ~q.full
                          /\ p # Host => /\ q.rev = s.rev /\ q.early = s.early
                                         /\ Remembers(s, q) /\ q.cut \subseteq s.cut
             /\ p # Host \/ s.known => q.live
             /\ s.known => q.cut \subseteq s.cut \union ((s.pending \union s.peers) \ s.roster)
<1> SUFFICES Gone(r)
  OBVIOUS
<1>1. y \in Messages /\ Fits(y.ids) /\ g \in BOOLEAN
  BY NoMessageTyped DEF GuestStates, Sound, Announced
<1>2. OnLeave(s, p) =
        IF p = Host /\ p \in s.pending /\ s.bound THEN HostLostWhileWaiting(t)
        ELSE IF p = Host /\ p \in s.peers /\ s.bound THEN AuthorityLost(t)
        ELSE t
  BY DEF OnLeave
<1>11. (p = Host => ~g) /\ (p # Host => (g <=> s.full))
  BY DEF g
<1> HIDE DEF y, g
<1>3. /\ t.full = g
      /\ t \in GuestStates /\ t.self = s.self /\ t.live /\ t.links = s.links \ {p} /\ t.cut = s.cut \ {p}
      /\ t.peers = s.peers \ {p} /\ t.pending = s.pending \ {p} /\ t.bound = s.bound
      /\ t.authed = s.authed /\ t.roster = s.roster /\ t.known = s.known /\ t.rev = s.rev
      /\ t.closed = s.closed /\ t.back = s.back /\ t.early = y /\ t.ended = s.ended
  BY <1>1 DEF GuestStates
<1>4. Transports(t) /\ Listed(t) /\ Door(t) /\ s.ended = "no"
  <2>1. p \in Ids
    BY DEF GuestStates
  <2>2. Fits(s.peers) => Fits(s.peers \ {p})
    BY FitsSmaller DEF GuestStates
  <2> HIDE DEF t
  <2> QED BY <1>3, <2>2 DEF Sound, Transports, Listed, Door
<1>5. p = Host => y = NoMessage
  BY DEF y
<1>6. p # Host => y = s.early
  BY DEF y
<1>7. /\ s.rev # NoRev => /\ ~s.closed /\ s.authed /\ s.known /\ s.bound
                          /\ Host \in s.links => Host \in s.peers
      /\ s.closed => Host \notin s.pending
      /\ s.authed => s.early = NoMessage
  BY DEF Sound, Announced, Listed, Door
<1>8. CASE p = Host /\ p \in s.pending /\ s.bound
  <2> DEFINE h == [t EXCEPT !.authed = FALSE, !.back = {}]
  <2>1. r = IF s.known THEN h ELSE End(h, "authority")
    BY <1>2, <1>3, <1>8 DEF HostLostWhileWaiting
  <2>2. /\ h \in GuestStates /\ h.self = s.self /\ h.live /\ h.links = t.links /\ h.cut = t.cut
        /\ h.peers = t.peers /\ h.pending = t.pending /\ h.bound = t.bound
        /\ ~h.authed /\ h.roster = t.roster /\ h.known = t.known /\ h.rev = t.rev
        /\ h.closed = t.closed /\ h.back = {} /\ h.early = t.early /\ h.ended = t.ended
        /\ h.full = t.full
    BY <1>3 DEF GuestStates
  <2>3. s.rev = NoRev
    BY <1>7, <1>8 DEF Sound, Transports
  <2> HIDE DEF t, h, r
  <2>4. CASE s.known
    <3>1. Transports(h) /\ Listed(h) /\ Door(h)
      BY <1>3, <1>4, <1>7, <1>8, <2>2 DEF Transports, Listed, Door
    <3>2. Announced(h)
      BY <1>1, <1>3, <2>2, <2>3 DEF Announced
    <3>3. Reacts(s, h)
      BY <1>3, <1>4, <1>8, <2>2, <2>4, <3>1, <3>2 DEF Reacts, Sound
    <3> QED BY <1>3, <1>5, <1>8, <1>11, <2>1, <2>2, <2>3, <2>4, <3>3
  <2>5. CASE ~s.known
    <3>1. r \in GuestStates /\ ~r.live /\ r.self = s.self
      BY <2>1, <2>2, <2>5, EndIs
    <3> QED BY <1>8, <2>5, <3>1 DEF Reacts
  <2> QED BY <2>4, <2>5
<1>9. CASE p = Host /\ p \in s.peers /\ s.bound
  <2> DEFINE kept == (IF s.known THEN s.roster ELSE t.peers) \union {Host}
             wait == t.pending \intersect kept
             l == [t EXCEPT !.authed = FALSE, !.early = NoMessage, !.back = kept,
                            !.rev = NoRev, !.closed = TRUE, !.pending = wait]
             out == (t.pending \union t.peers) \ kept
  <2>1. p \notin s.pending
    BY <1>9 DEF Sound, Transports
  <2>2. r = Cut(l, out)
    BY <1>2, <1>3, <1>9, <2>1 DEF AuthorityLost
  <2>3. kept \in SUBSET Ids /\ out \in SUBSET Ids /\ wait \in SUBSET Ids
    BY <1>3 DEF GuestStates, Ids
  <2>4. s.known => kept = s.roster \union {Host}
    OBVIOUS
  <2>13. Host \in kept
    OBVIOUS
  <2>5. ~s.known => t.peers \subseteq kept
    OBVIOUS
  <2>12. wait = t.pending \intersect kept
    OBVIOUS
  <2>7. \A q : q \in out <=> q \in t.pending \union t.peers /\ q \notin kept
    OBVIOUS
  <2> HIDE DEF kept, wait, r, t, out
  <2>6. /\ l \in GuestStates /\ l.self = t.self /\ l.live /\ l.links = t.links /\ l.cut = t.cut
        /\ l.peers = t.peers /\ l.pending = wait /\ l.bound = t.bound
        /\ ~l.authed /\ l.roster = t.roster /\ l.known = t.known /\ l.rev = NoRev
        /\ l.closed /\ l.back = kept /\ l.early = NoMessage /\ l.ended = t.ended
        /\ l.full = t.full
    <3> DEFINE a == [t EXCEPT !.authed = FALSE, !.early = NoMessage]
               b == [a EXCEPT !.back = kept, !.rev = NoRev]
    <3>1. a \in GuestStates /\ ~a.authed /\ a.early = NoMessage
          /\ \A f \in (DOMAIN t) \ {"authed", "early"} : a[f] = t[f]
      BY <1>3, NoMessageTyped DEF GuestStates
    <3>2. b \in GuestStates /\ b.back = kept /\ b.rev = NoRev
          /\ \A f \in (DOMAIN t) \ {"back", "rev"} : b[f] = a[f]
      BY <1>3, <2>3, <3>1 DEF GuestStates
    <3>3. l = [b EXCEPT !.closed = TRUE, !.pending = wait]
      BY <1>3 DEF GuestStates
    <3> HIDE DEF a, b, l
    <3>4. l \in GuestStates /\ l.closed /\ l.pending = wait
          /\ \A f \in (DOMAIN t) \ {"closed", "pending"} : l[f] = b[f]
      BY <1>3, <2>3, <3>2, <3>3 DEF GuestStates
    <3> QED BY <1>3, <3>1, <3>2, <3>4 DEF GuestStates
  <2> HIDE DEF l
  <2>8. /\ r \in GuestStates /\ Keeps(l, r) /\ r.cut = l.cut \union (out \intersect l.links)
        /\ r.peers = l.peers /\ r.pending = l.pending /\ r.bound = l.bound
        /\ r.closed = l.closed
    <3> DEFINE q == Cut(l, out)
    <3>1. /\ q \in GuestStates /\ Keeps(l, q) /\ q.cut = l.cut \union (out \intersect l.links)
          /\ q.peers = l.peers /\ q.pending = l.pending /\ q.bound = l.bound
          /\ q.closed = l.closed
      BY <2>3, <2>6, CutIs
    <3> QED BY <2>2, <3>1
  <2>9. Transports(r)
    BY <1>4, <2>12, <2>6, <2>7, <2>8 DEF Transports, Keeps
  <2>10. Listed(r)
    BY <1>4, <2>6, <2>8 DEF Listed, Keeps
  <2>11. Door(r) /\ Announced(r)
    BY <1>3, <1>9, <2>1, <2>4, <2>12, <2>13, <2>6, <2>8, NoMessageTyped
       DEF Door, Announced, Keeps
  <2>14. Reacts(s, r)
    BY <1>3, <1>4, <1>9, <2>6, <2>8, <2>9, <2>10, <2>11 DEF Reacts, Sound, Keeps
  <2>15. s.known => r.cut \subseteq s.cut \union ((s.pending \union s.peers) \ s.roster)
    BY <1>3, <2>4, <2>6, <2>7, <2>8
  <2> QED BY <1>3, <1>9, <1>11, <2>6, <2>8, <2>14, <2>15 DEF Keeps
<1>10. CASE /\ ~(p = Host /\ p \in s.pending /\ s.bound)
            /\ ~(p = Host /\ p \in s.peers /\ s.bound)
  <2>1. r = t
    BY <1>2, <1>10
  <2> HIDE DEF t, r
  <2>2. p = Host => s.rev = NoRev
    BY <1>7, <1>10
  <2>3. Announced(t)
    BY <1>1, <1>3, <1>5, <1>6, <1>7, <2>2 DEF Announced
  <2>4. Reacts(s, t)
    BY <1>3, <1>4, <2>3 DEF Reacts, Sound
  <2> QED BY <1>3, <1>5, <1>6, <1>11, <2>1, <2>2, <2>4 DEF Remembers
<1> HIDE DEF r
<1> QED BY <1>8, <1>9, <1>10
=============================================================================
