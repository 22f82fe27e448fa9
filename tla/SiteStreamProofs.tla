--------------------------- MODULE SiteStreamProofs ---------------------------
(***************************************************************************)
(* Theorems about SiteStream, for every value of its constants.            *)
(***************************************************************************)
EXTENDS SiteStream, FiniteSetTheorems, SequenceTheorems, TLAPS

-----------------------------------------------------------------------------
(* What taking sockets off a list does to it. *)

\* The place of a position that is kept: it moves to the front, past nobody.
LEMMA PlaceProperties ==
  ASSUME NEW S, NEW list \in Seq(S), NEW gone
  PROVE  /\ IsFiniteSet(Kept(list, gone))
         /\ Cardinality(Kept(list, gone)) \in Nat
         /\ \A i \in Kept(list, gone) :
              /\ i \in DOMAIN list
              /\ Place(list, gone, i) \in 1..Cardinality(Kept(list, gone))
              /\ Place(list, gone, i) <= i
         /\ \A i, j \in Kept(list, gone) :
              i < j => Place(list, gone, i) < Place(list, gone, j)
<1> DEFINE kept == Kept(list, gone)
           UpTo(i) == {j \in kept : j <= i}
<1>0. Len(list) \in Nat /\ DOMAIN list = 1..Len(list)
  BY LenProperties
<1>1. kept \subseteq 1..Len(list)
  BY <1>0 DEF Kept
<1>2. IsFiniteSet(kept) /\ Cardinality(kept) \in Nat
  <2>1. IsFiniteSet(1..Len(list))
    BY <1>0, FS_Interval
  <2> QED BY <1>1, <2>1, FS_Subset, FS_CardinalityType
<1>3. ASSUME NEW i \in kept
      PROVE  /\ i \in DOMAIN list
             /\ Place(list, gone, i) \in 1..Cardinality(kept)
             /\ Place(list, gone, i) <= i
  <2>1. i \in Nat /\ i \in UpTo(i) /\ i \in DOMAIN list
    BY <1>0, <1>1, <1>3
  <2>2. /\ IsFiniteSet(UpTo(i)) /\ Cardinality(UpTo(i)) \in Nat
        /\ Cardinality(UpTo(i)) <= Cardinality(kept)
    BY <1>2, FS_Subset, FS_CardinalityType
  <2>3. UpTo(i) \subseteq 1..i
    BY <1>0, <1>1, <2>1
  <2>4. Cardinality(UpTo(i)) <= i
    <3>1. IsFiniteSet(1..i) /\ Cardinality(1..i) = i
      BY <2>1, FS_Interval
    <3> QED BY <2>3, <3>1, FS_Subset
  <2>5. Cardinality(UpTo(i)) # 0
    BY <2>1, <2>2, FS_EmptySet
  <2> QED BY <1>2, <2>1, <2>2, <2>4, <2>5 DEF Place
<1>4. ASSUME NEW i \in kept, NEW j \in kept, i < j
      PROVE  Place(list, gone, i) < Place(list, gone, j)
  <2>1. i \in Nat /\ j \in Nat
    BY <1>0, <1>1
  <2>2. UpTo(i) \subseteq UpTo(j) /\ j \in UpTo(j) /\ j \notin UpTo(i)
    BY <1>0, <1>1, <1>4, <2>1
  <2>3. IsFiniteSet(UpTo(i)) /\ IsFiniteSet(UpTo(j))
    BY <1>2, FS_Subset
  <2>4. /\ Cardinality(UpTo(i)) \in Nat /\ Cardinality(UpTo(j)) \in Nat
        /\ Cardinality(UpTo(i)) <= Cardinality(UpTo(j))
        /\ Cardinality(UpTo(i)) # Cardinality(UpTo(j))
    BY <2>2, <2>3, FS_Subset, FS_CardinalityType
  <2> QED BY <2>4 DEF Place
<1> QED BY <1>2, <1>3, <1>4

\* Every place is that of one position.
LEMMA PlaceTaken ==
  ASSUME NEW S, NEW list \in Seq(S), NEW gone,
         NEW k \in 1..Cardinality(Kept(list, gone))
  PROVE  \E i \in Kept(list, gone) : Place(list, gone, i) = k
<1> DEFINE kept == Kept(list, gone)
           n == Cardinality(kept)
           place == [i \in kept |-> Place(list, gone, i)]
<1>1. /\ IsFiniteSet(kept) /\ n \in Nat
      /\ \A i \in kept : i \in DOMAIN list /\ Place(list, gone, i) \in 1..n
      /\ \A i, j \in kept : i < j => Place(list, gone, i) < Place(list, gone, j)
  BY PlaceProperties
<1>2. kept \subseteq Nat
  BY <1>1, LenProperties
<1>3. IsFiniteSet(1..n) /\ Cardinality(1..n) = n
  BY <1>1, FS_Interval
<1>4. place \in Injection(kept, 1..n)
  <2>1. \A i, j \in kept : place[i] = place[j] => i = j
    BY <1>1, <1>2
  <2> QED BY <1>1, <2>1 DEF Injection, IsInjective
<1>5. place \in Surjection(kept, 1..n)
  BY <1>3, <1>4, FS_Injection
<1> QED BY <1>5 DEF Surjection

\* The list without some sockets is the list of the others: in the order they had, and none
\* further back than before.
LEMMA WithoutProperties ==
  ASSUME NEW S, NEW list \in Seq(S), NEW gone
  PROVE  /\ Without(list, gone) \in Seq(S)
         /\ ToSet(Without(list, gone)) = ToSet(list) \ gone
         /\ \E from \in [DOMAIN Without(list, gone) -> DOMAIN list] :
              /\ \A k \in DOMAIN Without(list, gone) :
                   Without(list, gone)[k] = list[from[k]] /\ k <= from[k]
              /\ \A k, l \in DOMAIN Without(list, gone) : k < l => from[k] < from[l]
<1> DEFINE kept == Kept(list, gone)
           n == Cardinality(kept)
           from == [k \in 1..n |-> CHOOSE i \in kept : Place(list, gone, i) = k]
           new == Without(list, gone)
<1>1. /\ n \in Nat
      /\ \A i \in kept : /\ i \in DOMAIN list
                         /\ Place(list, gone, i) \in 1..n
                         /\ Place(list, gone, i) <= i
      /\ \A i, j \in kept : i < j => Place(list, gone, i) < Place(list, gone, j)
  BY PlaceProperties
<1>2. Len(list) \in Nat /\ DOMAIN list = 1..Len(list) /\ kept \subseteq Nat
  BY <1>1, LenProperties
<1>3. \A k \in 1..n : from[k] \in kept /\ Place(list, gone, from[k]) = k
  BY PlaceTaken
<1>4. new = [k \in 1..n |-> list[from[k]]]
  BY DEF Without
<1> HIDE DEF from
<1>5. DOMAIN new = 1..n /\ \A k \in 1..n : new[k] = list[from[k]]
  BY <1>4
<1>6. from \in [1..n -> DOMAIN list]
  BY <1>1, <1>3 DEF from
<1>7. new \in Seq(S)
  <2>1. \A k \in 1..n : list[from[k]] \in S
    BY <1>2, <1>6, ElementOfSeq
  <2> QED BY <1>1, <1>4, <2>1
<1>8. \A k, l \in 1..n : k < l => from[k] < from[l]
  <2> SUFFICES ASSUME NEW k \in 1..n, NEW l \in 1..n, k < l PROVE from[k] < from[l]
    OBVIOUS
  <2>1. /\ from[k] \in kept /\ Place(list, gone, from[k]) = k
        /\ from[l] \in kept /\ Place(list, gone, from[l]) = l
    BY <1>3
  <2>2. from[k] \in Nat /\ from[l] \in Nat
    BY <1>2, <2>1
  <2>3. ~ (from[l] < from[k])
    BY <1>1, <2>1
  <2>4. from[k] # from[l]
    BY <2>1
  <2> QED BY <2>2, <2>3, <2>4
<1>9. \A k \in 1..n : k <= from[k]
  BY <1>1, <1>3
<1>10. ToSet(new) = ToSet(list) \ gone
  <2>1. ASSUME NEW k \in 1..n PROVE new[k] \in ToSet(list) \ gone
    BY <1>3, <1>5 DEF Kept, ToSet
  <2>2. ASSUME NEW i \in DOMAIN list, list[i] \notin gone
        PROVE  list[i] \in ToSet(new)
    <3>1. i \in kept
      BY <2>2 DEF Kept
    <3>2. Place(list, gone, i) \in 1..n
      BY <1>1, <3>1
    <3>3. PICK k \in 1..n : k = Place(list, gone, i)
      BY <3>2
    <3>4. from[k] \in kept /\ Place(list, gone, from[k]) = k
      BY <1>3
    <3>5. from[k] = i
      <4>1. from[k] \in Nat /\ i \in Nat
        BY <1>2, <3>1, <3>4
      <4>2. ~ (from[k] < i) /\ ~ (i < from[k])
        BY <1>1, <3>1, <3>3, <3>4
      <4> QED BY <4>1, <4>2
    <3> QED BY <1>5, <3>5 DEF ToSet
  <2>3. ToSet(new) \subseteq ToSet(list) \ gone
    BY <1>5, <2>1 DEF ToSet
  <2>4. ToSet(list) \ gone \subseteq ToSet(new)
    BY <2>2 DEF ToSet
  <2> QED BY <2>3, <2>4
<1>11. \E g \in [DOMAIN new -> DOMAIN list] :
         /\ \A k \in DOMAIN new : new[k] = list[g[k]] /\ k <= g[k]
         /\ \A k, l \in DOMAIN new : k < l => g[k] < g[l]
  <2>1. from \in [DOMAIN new -> DOMAIN list]
    BY <1>5, <1>6
  <2>2. \A k \in DOMAIN new : new[k] = list[from[k]] /\ k <= from[k]
    BY <1>5, <1>9
  <2>3. \A k, l \in DOMAIN new : k < l => from[k] < from[l]
    BY <1>5, <1>8
  <2> QED BY <2>1, <2>2, <2>3
<1> QED BY <1>7, <1>10, <1>11

-----------------------------------------------------------------------------
(***************************************************************************)
(* The invariant.  ListInv ties the list to the endpoints: an open         *)
(* connection is on it, and what is on it is not used anew.  WalkInv says  *)
(* of a broadcast that it has dealt with one socket for each position it   *)
(* has passed, with none of those ahead of it, and that the sockets it     *)
(* takes for dead are not open: no connection recovers.                    *)
(***************************************************************************)
ListInv ==
  /\ \A s \in ToSet(active) : socket[s] # "free"
  /\ ConnectedStaysListed

WalkInv(b) ==
  /\ IsFiniteSet(Handled(b)) /\ Cardinality(Handled(b)) = cast[b].next - 1
  /\ \A i \in DOMAIN active : cast[b].next <= i => active[i] \notin Handled(b)
  /\ \A s \in cast[b].dead : socket[s] # "open"

StreamInv == TypeOK /\ ListInv /\ \A b \in Broadcasts : WalkInv(b)

LEMMA InitStream == Init => StreamInv
<1> SUFFICES ASSUME Init PROVE StreamInv
  OBVIOUS
<1>1. active = <<>> /\ active \in Seq(Sockets) /\ DOMAIN active = {}
  BY EmptySeq DEF Init
<1>2. TypeOK
  BY <1>1 DEF Init, TypeOK, NoCast, Cast, States, IsInjective
<1>3. ListInv
  BY <1>1 DEF Init, ListInv, ConnectedStaysListed, ToSet
<1>4. ASSUME NEW b \in Broadcasts PROVE WalkInv(b)
  <2>1. cast[b] = NoCast
    BY DEF Init
  <2>2. Handled(b) = {} /\ cast[b].next = 1 /\ cast[b].dead = {}
    BY <2>1 DEF NoCast, Handled
  <2> QED BY <1>1, <2>2, FS_EmptySet DEF WalkInv
<1> QED BY <1>2, <1>3, <1>4 DEF StreamInv

\* What a step finds.
LEMMA ListFacts ==
  ASSUME TypeOK
  PROVE  /\ active \in Seq(Sockets) /\ Len(active) \in Nat
         /\ DOMAIN active = 1..Len(active)
         /\ \A i \in DOMAIN active : active[i] \in Sockets
         /\ \A i, j \in DOMAIN active : active[i] = active[j] => i = j
         /\ \A b \in Broadcasts :
              /\ cast[b] \in Cast /\ cast[b].next \in Nat
              /\ cast[b].dead \subseteq Sockets /\ Handled(b) \subseteq Sockets
<1>1. active \in Seq(Sockets)
  BY DEF TypeOK
<1>2. /\ Len(active) \in Nat /\ DOMAIN active = 1..Len(active)
      /\ \A i \in DOMAIN active : active[i] \in Sockets
  BY <1>1, LenProperties, ElementOfSeq
<1> QED BY <1>1, <1>2 DEF TypeOK, IsInjective, Cast, Handled

\* A connection that is put on the list is behind everyone else.
LEMMA ListAppended ==
  ASSUME TypeOK, NEW s \in Sockets, active' = Append(active, s)
  PROVE  /\ active' \in Seq(Sockets)
         /\ ToSet(active') = ToSet(active) \cup {s}
         /\ s \notin ToSet(active) => IsInjective(active')
         /\ \A k \in DOMAIN active' :
              active'[k] = s \/ (k \in DOMAIN active /\ active'[k] = active[k])
<1>1. /\ active \in Seq(Sockets) /\ Len(active) \in Nat
      /\ DOMAIN active = 1..Len(active)
      /\ \A i, j \in DOMAIN active : active[i] = active[j] => i = j
  BY ListFacts
<1>2. /\ active' \in Seq(Sockets)
      /\ Len(active') = Len(active) + 1
      /\ \A k \in 1..Len(active) : active'[k] = active[k]
      /\ active'[Len(active) + 1] = s
  BY <1>1, AppendProperties
<1>3. DOMAIN active' = 1..(Len(active) + 1)
  BY <1>2, LenProperties
<1>4. \A k \in DOMAIN active' : k = Len(active) + 1 \/ k \in DOMAIN active
  BY <1>1, <1>3
<1>5. ToSet(active') = ToSet(active) \cup {s}
  BY <1>1, <1>2, <1>3, <1>4 DEF ToSet
<1>6. s \notin ToSet(active) => IsInjective(active')
  BY <1>1, <1>2, <1>4 DEF ToSet, IsInjective
<1>7. \A k \in DOMAIN active' :
        active'[k] = s \/ (k \in DOMAIN active /\ active'[k] = active[k])
  BY <1>1, <1>2, <1>4
<1> QED BY <1>2, <1>5, <1>6, <1>7

\* Sockets are taken off the list: whoever is left has moved to the front, if at all.
LEMMA ListShortened ==
  ASSUME TypeOK, NEW gone, active' = Without(active, gone)
  PROVE  /\ active' \in Seq(Sockets)
         /\ ToSet(active') = ToSet(active) \ gone
         /\ IsInjective(active')
         /\ \A k \in DOMAIN active' :
              \E i \in DOMAIN active : k <= i /\ active'[k] = active[i]
<1>1. /\ active \in Seq(Sockets)
      /\ \A i, j \in DOMAIN active : active[i] = active[j] => i = j
  BY ListFacts
<1>2. /\ active' \in Seq(Sockets)
      /\ ToSet(active') = ToSet(active) \ gone
  BY <1>1, WithoutProperties
<1>3. PICK from \in [DOMAIN active' -> DOMAIN active] :
        /\ \A k \in DOMAIN active' : active'[k] = active[from[k]] /\ k <= from[k]
        /\ \A k, l \in DOMAIN active' : k < l => from[k] < from[l]
  BY <1>1, WithoutProperties
<1>4. \A k \in DOMAIN active' : k \in Nat /\ from[k] \in Nat
  BY <1>2, ListFacts, LenProperties
<1>5. IsInjective(active')
  <2> SUFFICES ASSUME NEW k \in DOMAIN active', NEW l \in DOMAIN active',
                      active'[k] = active'[l]
               PROVE  k = l
    BY DEF IsInjective
  <2>1. from[k] = from[l]
    BY <1>1, <1>3
  <2>2. k \in Nat /\ l \in Nat /\ from[k] \in Nat
    BY <1>4
  <2>3. ~ (k < l) /\ ~ (l < k)
    BY <1>3, <2>1, <2>2
  <2> QED BY <2>2, <2>3
<1> QED BY <1>2, <1>3, <1>5

LEMMA ConnectStream ==
  ASSUME StreamInv, NEW s \in Sockets, Connect(s)
  PROVE  StreamInv'
<1>1. TypeOK /\ ListInv /\ socket \in [Sockets -> States] /\ s \notin ToSet(active)
  BY DEF StreamInv, TypeOK, ListInv, Connect
<1>2. /\ active' \in Seq(Sockets) /\ IsInjective(active')
      /\ ToSet(active') = ToSet(active) \cup {s}
      /\ \A k \in DOMAIN active' :
           active'[k] = s \/ (k \in DOMAIN active /\ active'[k] = active[k])
  BY <1>1, ListAppended DEF Connect
<1>3. socket' = [socket EXCEPT ![s] = "open"] /\ cast' = cast
  BY DEF Connect
<1>4. TypeOK'
  BY <1>1, <1>2, <1>3 DEF TypeOK, States
<1>5. ListInv'
  BY <1>1, <1>2, <1>3 DEF ListInv, ConnectedStaysListed
<1>6. ASSUME NEW b \in Broadcasts PROVE WalkInv(b)'
  <2>1. WalkInv(b) /\ s \notin Handled(b) /\ Handled(b)' = Handled(b)
    BY <1>3 DEF StreamInv, Connect, Handled
  <2>2. s \notin cast[b].dead /\ cast[b].dead \subseteq Sockets
    BY <1>1, <2>1, ListFacts DEF Handled
  <2>3. \A t \in cast[b].dead : socket'[t] # "open"
    BY <1>1, <1>3, <2>1, <2>2 DEF WalkInv
  <2>4. \A i \in DOMAIN active' : cast[b].next <= i => active'[i] \notin Handled(b)
    BY <1>2, <2>1 DEF WalkInv
  <2> QED BY <1>3, <2>1, <2>3, <2>4 DEF WalkInv
<1> QED BY <1>4, <1>5, <1>6 DEF StreamInv

\* A connection that is no longer open stays where it is.
LEMMA LeaveStream ==
  ASSUME StreamInv, NEW s \in Sockets, Close(s) \/ EndpointFails(s)
  PROVE  StreamInv'
<1>1. /\ TypeOK /\ ListInv /\ socket \in [Sockets -> States]
      /\ active' = active /\ cast' = cast
  BY DEF StreamInv, TypeOK, Close, EndpointFails
<1>2. PICK state \in {"gone", "failed"} : socket' = [socket EXCEPT ![s] = state]
  BY DEF Close, EndpointFails
<1>3. TypeOK'
  BY <1>1, <1>2 DEF TypeOK, States
<1>4. ListInv'
  BY <1>1, <1>2 DEF ListInv, ConnectedStaysListed
<1>5. ASSUME NEW b \in Broadcasts PROVE WalkInv(b)'
  <2>1. WalkInv(b) /\ Handled(b)' = Handled(b) /\ cast[b].dead \subseteq Sockets
    BY <1>1, ListFacts DEF StreamInv, Handled
  <2>2. \A t \in cast[b].dead : socket'[t] # "open"
    BY <1>1, <1>2, <2>1 DEF WalkInv
  <2> QED BY <1>1, <2>1, <2>2 DEF WalkInv
<1> QED BY <1>3, <1>4, <1>5 DEF StreamInv

\* Taking sockets off the list leaves a walk with nothing ahead that it had not ahead before.
LEMMA ShortenedWalk ==
  ASSUME TypeOK, NEW gone, active' = Without(active, gone),
         NEW b \in Broadcasts, WalkInv(b)
  PROVE  \A k \in DOMAIN active' : cast[b].next <= k => active'[k] \notin Handled(b)
<1> SUFFICES ASSUME NEW k \in DOMAIN active', cast[b].next <= k
             PROVE  active'[k] \notin Handled(b)
  OBVIOUS
<1>1. PICK i \in DOMAIN active : k <= i /\ active'[k] = active[i]
  BY ListShortened
<1>2. k \in Nat /\ i \in Nat /\ cast[b].next \in Nat
  BY ListShortened, ListFacts, LenProperties
<1> QED BY <1>1, <1>2 DEF WalkInv

LEMMA DisconnectStream ==
  ASSUME StreamInv, NEW s \in Sockets, Disconnect(s)
  PROVE  StreamInv'
<1>1. TypeOK /\ ListInv /\ socket \in [Sockets -> States]
  BY DEF StreamInv, TypeOK
<1>2. /\ socket[s] = "gone" /\ socket' = [socket EXCEPT ![s] = "free"]
      /\ active' = Without(active, {s}) /\ cast' = cast
  BY DEF Disconnect
<1>3. /\ active' \in Seq(Sockets) /\ IsInjective(active')
      /\ ToSet(active') = ToSet(active) \ {s}
  BY <1>1, <1>2, ListShortened
<1>4. TypeOK'
  BY <1>1, <1>2, <1>3 DEF TypeOK, States
<1>5. ListInv'
  <2>1. ToSet(active) \subseteq Sockets
    BY <1>1, ListFacts DEF ToSet
  <2> QED BY <1>1, <1>2, <1>3, <2>1 DEF ListInv, ConnectedStaysListed
<1>6. ASSUME NEW b \in Broadcasts PROVE WalkInv(b)'
  <2>1. WalkInv(b) /\ Handled(b)' = Handled(b) /\ cast[b].dead \subseteq Sockets
    BY <1>1, <1>2, ListFacts DEF StreamInv, Handled
  <2>2. \A t \in cast[b].dead : socket'[t] # "open"
    BY <1>1, <1>2, <2>1 DEF WalkInv
  <2>3. \A k \in DOMAIN active' : cast[b].next <= k => active'[k] \notin Handled(b)
    BY <1>1, <1>2, <2>1, ShortenedWalk
  <2> QED BY <1>2, <2>1, <2>2, <2>3 DEF WalkInv
<1> QED BY <1>4, <1>5, <1>6 DEF StreamInv

LEMMA BroadcastStream ==
  ASSUME StreamInv, NEW b \in Broadcasts, Broadcast(b)
  PROVE  StreamInv'
<1>1. /\ TypeOK /\ ListInv /\ active' = active /\ socket' = socket
      /\ cast' = [cast EXCEPT ![b].on = TRUE]
  BY DEF StreamInv, Broadcast
<1>2. TypeOK'
  BY <1>1 DEF TypeOK, Cast
<1>3. ListInv'
  BY <1>1 DEF ListInv, ConnectedStaysListed
<1>4. ASSUME NEW c \in Broadcasts PROVE WalkInv(c)'
  <2>1. /\ cast'[c].next = cast[c].next /\ cast'[c].sent = cast[c].sent
        /\ cast'[c].dead = cast[c].dead
    BY <1>1 DEF TypeOK, Cast
  <2> QED BY <1>1, <2>1 DEF StreamInv, WalkInv, Handled
<1> QED BY <1>2, <1>3, <1>4 DEF StreamInv

\* The next socket of the list has been dealt with.
LEMMA SendStream ==
  ASSUME StreamInv, NEW b \in Broadcasts, Send(b)
  PROVE  StreamInv'
<1> DEFINE i == cast[b].next
           s == active[i]
<1>1. /\ TypeOK /\ ListInv /\ active' = active /\ socket' = socket
      /\ i \in DOMAIN active /\ WalkInv(b)
  BY DEF StreamInv, Send
<1>2. /\ cast[b] \in Cast /\ i \in Nat /\ s \in Sockets /\ s \notin Handled(b)
      /\ \A j \in DOMAIN active : i + 1 <= j => active[j] # s
  BY <1>1, ListFacts DEF WalkInv
<1>3. \/ cast' = [cast EXCEPT ![b].next = i + 1, ![b].sent = cast[b].sent \cup {s}]
      \/ /\ Raises(s)
         /\ cast' = [cast EXCEPT ![b].next = i + 1, ![b].dead = cast[b].dead \cup {s}]
  BY DEF Send
<1>4. TypeOK'
  <2>1. ASSUME NEW new \in Cast, cast' = [cast EXCEPT ![b] = new] PROVE TypeOK'
    BY <1>1, <2>1 DEF TypeOK
  <2>2. /\ [cast[b] EXCEPT !.next = i + 1, !.sent = cast[b].sent \cup {s}] \in Cast
        /\ [cast[b] EXCEPT !.next = i + 1, !.dead = cast[b].dead \cup {s}] \in Cast
    <3>1. /\ i + 1 \in Nat
          /\ cast[b].sent \cup {s} \in SUBSET Sockets
          /\ cast[b].dead \cup {s} \in SUBSET Sockets
      BY <1>2 DEF Cast
    <3> HIDE DEF i, s
    <3>2. ASSUME NEW n \in Nat, NEW t \in SUBSET Sockets
          PROVE  /\ [cast[b] EXCEPT !.next = n, !.sent = t] \in Cast
                 /\ [cast[b] EXCEPT !.next = n, !.dead = t] \in Cast
      BY <1>2 DEF Cast
    <3> QED BY <3>1, <3>2
  <2>3. \/ cast' = [cast EXCEPT ![b] = [cast[b] EXCEPT !.next = i + 1,
                                                      !.sent = cast[b].sent \cup {s}]]
        \/ cast' = [cast EXCEPT ![b] = [cast[b] EXCEPT !.next = i + 1,
                                                      !.dead = cast[b].dead \cup {s}]]
    BY <1>1, <1>3 DEF TypeOK
  <2> QED BY <2>1, <2>2, <2>3
<1>5. ListInv'
  BY <1>1 DEF ListInv, ConnectedStaysListed
<1>6. /\ cast'[b].next = i + 1 /\ Handled(b)' = Handled(b) \cup {s}
      /\ \/ cast'[b].dead = cast[b].dead
         \/ Raises(s) /\ cast'[b].dead = cast[b].dead \cup {s}
  BY <1>1, <1>2, <1>3 DEF TypeOK, Cast, Handled
<1>7. WalkInv(b)'
  <2>1. IsFiniteSet(Handled(b)') /\ Cardinality(Handled(b)') = i
    <3>1. IsFiniteSet(Handled(b)) /\ Cardinality(Handled(b)) = i - 1
      BY <1>1 DEF WalkInv
    <3>2. /\ IsFiniteSet(Handled(b) \cup {s})
          /\ Cardinality(Handled(b) \cup {s}) = Cardinality(Handled(b)) + 1
      BY <1>2, <3>1, FS_AddElement
    <3> QED BY <1>2, <1>6, <3>1, <3>2
  <2>2. \A j \in DOMAIN active : i + 1 <= j => active[j] \notin Handled(b) \cup {s}
    BY <1>1, <1>2, ListFacts DEF WalkInv
  <2>3. \A t \in cast'[b].dead : socket[t] # "open"
    BY <1>1, <1>6 DEF WalkInv, Raises
  <2> QED BY <1>1, <1>2, <1>6, <2>1, <2>2, <2>3 DEF WalkInv
<1>8. ASSUME NEW c \in Broadcasts, c # b PROVE WalkInv(c)'
  <2>1. cast'[c] = cast[c]
    BY <1>1, <1>3, <1>8 DEF TypeOK
  <2> QED BY <1>1, <2>1 DEF StreamInv, WalkInv, Handled
<1> QED BY <1>4, <1>5, <1>7, <1>8 DEF StreamInv

\* The dead sockets leave the list; none of them is open.
LEMMA FinishStream ==
  ASSUME StreamInv, NEW b \in Broadcasts, Finish(b)
  PROVE  StreamInv'
<1> DEFINE gone == cast[b].dead
<1>1. /\ TypeOK /\ ListInv /\ WalkInv(b) /\ socket \in [Sockets -> States]
      /\ active' = Without(active, gone) /\ socket' = Released(gone)
      /\ cast' = [cast EXCEPT ![b] = NoCast]
  BY DEF StreamInv, TypeOK, Finish
<1>2. /\ active' \in Seq(Sockets) /\ IsInjective(active')
      /\ ToSet(active') = ToSet(active) \ gone
      /\ ToSet(active) \subseteq Sockets
  BY <1>1, ListShortened, ListFacts DEF ToSet
<1>3. /\ socket' \in [Sockets -> States]
      /\ \A s \in Sockets : s \notin gone => socket'[s] = socket[s]
      /\ \A s \in Sockets : socket'[s] = "open" <=> socket[s] = "open"
  BY <1>1 DEF Released, States
<1>4. TypeOK'
  BY <1>1, <1>2, <1>3 DEF TypeOK, NoCast, Cast
<1>5. ListInv'
  BY <1>1, <1>2, <1>3 DEF ListInv, ConnectedStaysListed, WalkInv
<1>6. WalkInv(b)'
  <2>1. cast'[b] = NoCast
    BY <1>1 DEF TypeOK
  <2>2. Handled(b)' = {} /\ cast'[b].next = 1 /\ cast'[b].dead = {}
    BY <2>1 DEF NoCast, Handled
  <2> QED BY <2>2, FS_EmptySet DEF WalkInv
<1>7. ASSUME NEW c \in Broadcasts, c # b PROVE WalkInv(c)'
  <2>1. WalkInv(c) /\ cast'[c] = cast[c] /\ Handled(c)' = Handled(c)
    BY <1>1, <1>7 DEF StreamInv, TypeOK, Handled
  <2>2. \A t \in cast[c].dead : socket'[t] # "open"
    BY <1>1, <1>3, <2>1, ListFacts DEF WalkInv
  <2>3. \A k \in DOMAIN active' : cast[c].next <= k => active'[k] \notin Handled(c)
    BY <1>1, <2>1, ShortenedWalk
  <2> QED BY <2>1, <2>2, <2>3 DEF WalkInv
<1> QED BY <1>4, <1>5, <1>6, <1>7 DEF StreamInv

LEMMA StepStream == StreamInv /\ [Next]_vars => StreamInv'
<1> SUFFICES ASSUME StreamInv, [Next]_vars PROVE StreamInv'
  OBVIOUS
<1>1. ASSUME NEW s \in Sockets, Connect(s) PROVE StreamInv'
  BY <1>1, ConnectStream
<1>2. ASSUME NEW s \in Sockets, Close(s) \/ EndpointFails(s) PROVE StreamInv'
  BY <1>2, LeaveStream
<1>3. ASSUME NEW s \in Sockets, Disconnect(s) PROVE StreamInv'
  BY <1>3, DisconnectStream
<1>4. ASSUME NEW b \in Broadcasts, Broadcast(b) PROVE StreamInv'
  BY <1>4, BroadcastStream
<1>5. ASSUME NEW b \in Broadcasts, Send(b) PROVE StreamInv'
  BY <1>5, SendStream
<1>6. ASSUME NEW b \in Broadcasts, Finish(b) PROVE StreamInv'
  BY <1>6, FinishStream
<1>7. CASE UNCHANGED vars
  BY <1>7 DEF vars, StreamInv, TypeOK, ListInv, ConnectedStaysListed, WalkInv, Handled
<1> QED BY <1>1, <1>2, <1>3, <1>4, <1>5, <1>6, <1>7 DEF Next

LEMMA StreamInvariant == Spec => []StreamInv
BY InitStream, StepStream, PTL DEF Spec

\* The list is one of distinct connections, and everything else is of its type.
THEOREM TypeCorrect == Spec => []TypeOK
<1>1. StreamInv => TypeOK
  BY DEF StreamInv
<1> QED BY <1>1, StreamInvariant, PTL

\* No broadcast sends an event to a dashboard twice, whoever comes and goes under it.
THEOREM EventsAreSentOnce == Spec => []SentOnce
<1>1. StreamInv => SentOnce
  <2> SUFFICES ASSUME StreamInv, NEW b \in Broadcasts, NEW i \in DOMAIN active \ Passed(b)
               PROVE  active[i] \notin Handled(b)
    BY DEF SentOnce
  <2>1. i \in Nat /\ cast[b].next \in Nat /\ ~ (i < cast[b].next)
    BY ListFacts DEF StreamInv, Passed
  <2> QED BY <2>1 DEF StreamInv, WalkInv
<1> QED BY <1>1, StreamInvariant, PTL

\* A connection that is open is on the list: no broadcast or endpoint takes it off.
THEOREM ConnectedAreListed == Spec => []ConnectedStaysListed
<1>1. StreamInv => ConnectedStaysListed
  BY DEF StreamInv, ListInv
<1> QED BY <1>1, StreamInvariant, PTL

-----------------------------------------------------------------------------
(* How many dashboards a broadcast can pass over. *)

\* The connections among those dealt with that are still listed are as many as the positions
\* passed that hold one of them: there are none ahead.
LEMMA PassedHandled ==
  ASSUME StreamInv, NEW b \in Broadcasts
  PROVE  LET met == {i \in Passed(b) : active[i] \in Handled(b)}
         IN  /\ IsFiniteSet(met)
             /\ Cardinality(met) = Cardinality(Handled(b) \cap ToSet(active))
<1> DEFINE met == {i \in Passed(b) : active[i] \in Handled(b)}
           listed == Handled(b) \cap ToSet(active)
           at == [i \in met |-> active[i]]
<1>1. /\ Len(active) \in Nat /\ DOMAIN active = 1..Len(active) /\ cast[b].next \in Nat
      /\ \A i, j \in DOMAIN active : active[i] = active[j] => i = j
      /\ \A i \in DOMAIN active : cast[b].next <= i => active[i] \notin Handled(b)
  BY ListFacts DEF StreamInv, WalkInv
<1>2. met \subseteq DOMAIN active
  BY DEF Passed
<1>3. IsFiniteSet(met)
  <2>1. 1 \in Int /\ Len(active) \in Int
    BY <1>1
  <2>2. IsFiniteSet(1..Len(active))
    BY <2>1, FS_Interval
  <2> QED BY <1>1, <1>2, <2>2, FS_Subset
<1>4. at \in [met -> listed]
  BY <1>2 DEF ToSet
<1>5. \A i, j \in met : at[i] = at[j] => i = j
  BY <1>1, <1>2
<1>6. \A s \in listed : \E i \in met : at[i] = s
  <2> SUFFICES ASSUME NEW s \in listed PROVE \E i \in met : at[i] = s
    OBVIOUS
  <2>1. PICK i \in DOMAIN active : active[i] = s
    BY DEF ToSet
  <2>2. i < cast[b].next
    BY <1>1, <2>1
  <2> QED BY <2>1, <2>2 DEF Passed
<1>7. at \in Bijection(met, listed)
  BY <1>4, <1>5, <1>6 DEF Bijection, Injection, Surjection, IsInjective
<1>8. ExistsBijection(met, listed)
  BY <1>7 DEF ExistsBijection
<1> QED BY <1>3, <1>8, FS_Bijection

LEMMA PassedOver ==
  ASSUME StreamInv, NEW b \in Broadcasts
  PROVE  LET missed == {i \in Passed(b) : active[i] \notin Handled(b)}
         IN  /\ IsFiniteSet(missed)
             /\ Cardinality(missed) \in Nat
             /\ Cardinality(missed) <= Cardinality(Handled(b) \ ToSet(active))
<1> DEFINE handled == Handled(b)
           next == cast[b].next
           met == {i \in Passed(b) : active[i] \in Handled(b)}
           missed == {i \in Passed(b) : active[i] \notin Handled(b)}
<1>1. /\ DOMAIN active = 1..Len(active) /\ Len(active) \in Nat /\ next \in Nat
      /\ IsFiniteSet(handled) /\ Cardinality(handled) = next - 1
  BY ListFacts DEF StreamInv, WalkInv
<1>2. Cardinality(handled) \in Nat
  BY <1>1, FS_CardinalityType
<1>3. /\ IsFiniteSet(Passed(b)) /\ Cardinality(Passed(b)) \in Nat
      /\ Cardinality(Passed(b)) <= next - 1
  <2>1. IsFiniteSet(1..(next - 1)) /\ Cardinality(1..(next - 1)) = next - 1
    <3>1. next - 1 \in Nat
      BY <1>1, <1>2
    <3> HIDE DEF next
    <3>2. ASSUME NEW n \in Nat PROVE IsFiniteSet(1..n) /\ Cardinality(1..n) = n
      BY FS_Interval
    <3> QED BY <3>1, <3>2
  <2>2. Passed(b) \subseteq 1..(next - 1)
    BY <1>1 DEF Passed
  <2> QED BY <2>1, <2>2, FS_Subset, FS_CardinalityType
<1>4. missed = Passed(b) \ met /\ Passed(b) \cap met = met
  OBVIOUS
<1>5. /\ IsFiniteSet(missed)
      /\ Cardinality(missed) = Cardinality(Passed(b)) - Cardinality(met)
  BY <1>3, <1>4, FS_Difference
<1>6. Cardinality(met) = Cardinality(handled \cap ToSet(active))
  BY PassedHandled
<1>7. Cardinality(handled \ ToSet(active))
        = Cardinality(handled) - Cardinality(handled \cap ToSet(active))
  BY <1>1, FS_Difference
<1>8. Cardinality(met) \in Nat /\ Cardinality(missed) \in Nat
  BY <1>5, PassedHandled, FS_CardinalityType
<1>9. Cardinality(missed) <= Cardinality(handled \ ToSet(active))
  <2> HIDE DEF handled, next, met, missed
  <2> QED BY <1>1, <1>2, <1>3, <1>5, <1>6, <1>7, <1>8
<1> QED BY <1>5, <1>8, <1>9

\* A broadcast has passed over no more dashboards than it has reached that have gone since.
THEOREM MissesAreBounded == Spec => []MissesBounded
<1>1. StreamInv => MissesBounded
  BY PassedOver DEF MissesBounded
<1> QED BY <1>1, StreamInvariant, PTL

-----------------------------------------------------------------------------
(* The list implements an audience: every step is one of its steps, or a stutter. *)

\* The instance has a Cardinality of its own, which is the same.
LEMMA SameCardinality == \A S : Stream!Cardinality(S) = Cardinality(S)
BY DEF Cardinality, Stream!Cardinality

LEMMA InitServes == Init => Stream!Init
<1> SUFFICES ASSUME Init PROVE Stream!Init
  OBVIOUS
<1>1. ToSet(active) = {}
  BY EmptySeq DEF Init, ToSet
<1>2. \A b \in Broadcasts : Handled(b) = {} /\ ~ cast[b].on
  BY DEF Init, NoCast, Handled
<1> QED BY <1>1, <1>2 DEF Init, Stream!Init

LEMMA ConnectServes ==
  ASSUME StreamInv, NEW s \in Sockets, Connect(s)
  PROVE  Stream!Join(s)
<1>1. TypeOK /\ socket \in [Sockets -> States]
  BY DEF StreamInv, TypeOK
<1>2. s \notin ToSet(active) /\ ToSet(active') = ToSet(active) \cup {s}
  BY <1>1, ListAppended DEF Connect, StreamInv, ListInv
<1>3. {t \in Sockets : socket'[t] = "open"} = {t \in Sockets : socket[t] = "open"} \cup {s}
  BY <1>1 DEF Connect
<1> QED BY <1>2, <1>3 DEF Connect, Stream!Join, Handled

LEMMA LeaveServes ==
  ASSUME StreamInv, NEW s \in Sockets, Close(s) \/ EndpointFails(s)
  PROVE  Stream!Leave(s)
<1>1. socket \in [Sockets -> States]
  BY DEF StreamInv, TypeOK
<1>2. {t \in Sockets : socket'[t] = "open"} = {t \in Sockets : socket[t] = "open"} \ {s}
  BY <1>1 DEF Close, EndpointFails
<1> QED BY <1>2 DEF Close, EndpointFails, Stream!Leave, Handled

LEMMA DisconnectServes ==
  ASSUME StreamInv, NEW s \in Sockets, Disconnect(s)
  PROVE  Stream!Drop(s) \/ UNCHANGED Stream!vars
<1>1. TypeOK /\ socket \in [Sockets -> States]
  BY DEF StreamInv, TypeOK
<1>2. ToSet(active') = ToSet(active) \ {s}
  BY <1>1, ListShortened DEF Disconnect
<1>3. {t \in Sockets : socket'[t] = "open"} = {t \in Sockets : socket[t] = "open"}
  BY <1>1 DEF Disconnect
<1>4. /\ s \notin {t \in Sockets : socket[t] = "open"}
      /\ cast' = cast
  BY DEF Disconnect
<1>5. CASE s \in ToSet(active)
  BY <1>2, <1>3, <1>4, <1>5 DEF Stream!Drop, Handled
<1>6. CASE s \notin ToSet(active)
  BY <1>2, <1>3, <1>4, <1>6 DEF Stream!vars, Handled
<1> QED BY <1>5, <1>6

LEMMA BroadcastServes ==
  ASSUME StreamInv, NEW b \in Broadcasts, Broadcast(b)
  PROVE  Stream!Begin(b)
<1>1. cast \in [Broadcasts -> Cast] /\ cast' = [cast EXCEPT ![b].on = TRUE]
  BY DEF StreamInv, TypeOK, Broadcast
<1>2. \A c \in Broadcasts : /\ cast'[c].sent = cast[c].sent
                            /\ cast'[c].dead = cast[c].dead
  BY <1>1 DEF Cast
<1>3. \A c \in Broadcasts : cast'[c].on <=> (c = b \/ cast[c].on)
  BY <1>1 DEF Cast
<1>4. /\ {c \in Broadcasts : cast'[c].on} = {c \in Broadcasts : cast[c].on} \cup {b}
      /\ b \notin {c \in Broadcasts : cast[c].on}
  BY <1>3 DEF Broadcast
<1>5. [c \in Broadcasts |-> Handled(c)]' = [c \in Broadcasts |-> Handled(c)]
  BY <1>2 DEF Handled
<1> QED BY <1>4, <1>5 DEF Broadcast, Stream!Begin

LEMMA SendServes ==
  ASSUME StreamInv, NEW b \in Broadcasts, Send(b)
  PROVE  \E s \in Sockets : Stream!Reach(b, s)
<1> DEFINE i == cast[b].next
           s == active[i]
<1>1. /\ TypeOK /\ cast \in [Broadcasts -> Cast] /\ i \in DOMAIN active /\ cast[b].on
      /\ active' = active /\ socket' = socket
      /\ \/ cast' = [cast EXCEPT ![b].next = i + 1, ![b].sent = cast[b].sent \cup {s}]
         \/ cast' = [cast EXCEPT ![b].next = i + 1, ![b].dead = cast[b].dead \cup {s}]
  BY DEF StreamInv, TypeOK, Send
<1>2. s \in Sockets /\ s \in ToSet(active) /\ s \notin Handled(b)
  BY <1>1, ListFacts DEF StreamInv, WalkInv, ToSet
<1>3. \A c \in Broadcasts :
        Handled(c)' = IF c = b THEN Handled(b) \cup {s} ELSE Handled(c)
  BY <1>1 DEF Cast, Handled
<1>4. \A c \in Broadcasts : cast'[c].on <=> cast[c].on
  BY <1>1 DEF Cast
<1>5. [c \in Broadcasts |-> Handled(c)]'
        = [[c \in Broadcasts |-> Handled(c)] EXCEPT ![b] = @ \cup {s}]
  BY <1>3
<1>6. {c \in Broadcasts : cast'[c].on} = {c \in Broadcasts : cast[c].on}
  BY <1>4
<1>7. Stream!Reach(b, s)
  BY <1>1, <1>2, <1>5, <1>6 DEF Stream!Reach
<1> QED BY <1>2, <1>7

LEMMA FinishServes ==
  ASSUME StreamInv, NEW b \in Broadcasts, Finish(b)
  PROVE  Stream!End(b)
<1> DEFINE gone == cast[b].dead
           missed == {i \in Passed(b) : active[i] \notin Handled(b)}
           left == ToSet(active) \ Handled(b)
           present == {s \in Sockets : socket[s] = "open"}
<1>1. /\ TypeOK /\ WalkInv(b) /\ cast \in [Broadcasts -> Cast]
      /\ socket \in [Sockets -> States]
      /\ cast[b].on /\ cast[b].next \notin DOMAIN active
      /\ active' = Without(active, gone) /\ socket' = Released(gone)
      /\ cast' = [cast EXCEPT ![b] = NoCast]
  BY DEF StreamInv, TypeOK, Finish, Over
<1>2. Cardinality(left) <= Cardinality(Handled(b) \ ToSet(active))
  <2> DEFINE at == [i \in missed |-> active[i]]
  <2>1. /\ IsFiniteSet(missed) /\ Cardinality(missed) \in Nat
        /\ Cardinality(missed) <= Cardinality(Handled(b) \ ToSet(active))
    BY PassedOver
  <2>2. Passed(b) = DOMAIN active
    <3>1. Cardinality(Handled(b)) \in Nat /\ Cardinality(Handled(b)) = cast[b].next - 1
      BY <1>1, FS_CardinalityType DEF WalkInv
    <3> QED BY <1>1, <3>1, ListFacts DEF Passed
  <2>3. at \in Surjection(missed, left)
    BY <2>2 DEF Surjection, ToSet
  <2>4. IsFiniteSet(left) /\ Cardinality(left) <= Cardinality(missed)
    BY <2>1, <2>3, FS_Surjection
  <2>5. Cardinality(left) \in Nat
    BY <2>4, FS_CardinalityType
  <2>6. Cardinality(Handled(b) \ ToSet(active)) \in Nat
    BY <1>1, FS_Difference, FS_CardinalityType DEF WalkInv
  <2> HIDE DEF left, missed
  <2> QED BY <2>1, <2>4, <2>5, <2>6
<1>3. /\ gone \in SUBSET (Handled(b) \ present)
      /\ ToSet(active') = ToSet(active) \ gone
  BY <1>1, ListShortened DEF WalkInv, Handled
<1>4. {s \in Sockets : socket'[s] = "open"} = present
  BY <1>1 DEF Released
<1>5. \A c \in Broadcasts : cast'[c] = IF c = b THEN NoCast ELSE cast[c]
  BY <1>1
<1>6. \A c \in Broadcasts : Handled(c)' = IF c = b THEN {} ELSE Handled(c)
  BY <1>5 DEF Handled, NoCast
<1>7. \A c \in Broadcasts : cast'[c].on <=> (c # b /\ cast[c].on)
  BY <1>5 DEF NoCast
<1>8. {c \in Broadcasts : cast'[c].on} = {c \in Broadcasts : cast[c].on} \ {b}
  BY <1>7
<1>9. [c \in Broadcasts |-> Handled(c)]'
        = [[c \in Broadcasts |-> Handled(c)] EXCEPT ![b] = {}]
  BY <1>6
<1> QED BY <1>1, <1>2, <1>3, <1>4, <1>8, <1>9, SameCardinality DEF Stream!End

LEMMA StepServes == StreamInv /\ [Next]_vars => [Stream!Next]_Stream!vars
<1> SUFFICES ASSUME StreamInv, [Next]_vars PROVE [Stream!Next]_Stream!vars
  OBVIOUS
<1>1. ASSUME NEW s \in Sockets, Connect(s) PROVE Stream!Next
  BY <1>1, ConnectServes DEF Stream!Next
<1>2. ASSUME NEW s \in Sockets, Close(s) \/ EndpointFails(s) PROVE Stream!Next
  BY <1>2, LeaveServes DEF Stream!Next
<1>3. ASSUME NEW s \in Sockets, Disconnect(s) PROVE [Stream!Next]_Stream!vars
  BY <1>3, DisconnectServes DEF Stream!Next
<1>4. ASSUME NEW b \in Broadcasts, Broadcast(b) PROVE Stream!Next
  BY <1>4, BroadcastServes DEF Stream!Next
<1>5. ASSUME NEW b \in Broadcasts, Send(b) PROVE Stream!Next
  BY <1>5, SendServes DEF Stream!Next
<1>6. ASSUME NEW b \in Broadcasts, Finish(b) PROVE Stream!Next
  BY <1>6, FinishServes DEF Stream!Next
<1>7. CASE UNCHANGED vars
  BY <1>7 DEF vars, Stream!vars, Handled
<1> QED BY <1>1, <1>2, <1>3, <1>4, <1>5, <1>6, <1>7 DEF Next

\* The list of connections, with its positions, its endpoints and the broadcasts that walk
\* along it while it changes, is no less than an audience.
THEOREM ListServesAudience == Spec => ServesAudience
BY InitServes, StepServes, StreamInvariant, PTL DEF Spec, ServesAudience, Stream!Spec
=============================================================================
