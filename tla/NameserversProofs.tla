------------------------- MODULE NameserversProofs -------------------------
(***************************************************************************)
(* Proofs about Nameservers, for addresses and lists of every length: what *)
(* sanitize computes, and what the guest resolves with.                    *)
(***************************************************************************)
EXTENDS Nameservers, FiniteSetTheorems, TLAPS

-----------------------------------------------------------------------------
(* Masking the first segment with ffc0 finds the addresses of fe80::/10. *)
LEMMA LinkLocalPrefix ==
  ASSUME NEW x \in Nat
  PROVE  x \in 65152..65215 => x \div 64 = 1018
  OBVIOUS

(* A segment is a 16-bit number. *)
LEMMA SegmentsAreNumbers == Segment \subseteq Nat
  BY DEF Segment

(* What is_reachable_from_vm lets through means neither the guest itself nor
   an interface of the host. *)
LEMMA ReachableIsUsable ==
  ASSUME NEW a \in Address, IsReachable(a)
  PROVE  ~MeansTheGuest(a) /\ ~NeedsAScope(a)
<1>1. CASE a \in Ipv4Addr
  <2>1. a.ip = 4
    BY <1>1 DEF Ipv4Addr
  <2>2. QED
    BY <2>1 DEF IsReachable, IsLoopback, MeansTheGuest, NeedsAScope
<1>2. CASE a \in Ipv6Addr
  <2>1. a.ip = 6 /\ a.n \in [1..8 -> Segment]
    BY <1>2 DEF Ipv6Addr
  <2>2. ~NeedsAScope(a)
    <3>0. a.n[1] \in Segment
      BY <2>1
    <3>1. a.n[1] \in Nat
      BY <3>0, SegmentsAreNumbers
    <3>2. a.n[1] \div 64 # 1018
      BY <2>1 DEF IsReachable, IsLinkLocal
    <3>3. QED
      BY <3>1, <3>2, LinkLocalPrefix DEF NeedsAScope
  <2>3. ~MeansTheGuest(a)
    <3> SUFFICES ASSUME a.n[8] = 1, \A i \in 1..7 : a.n[i] = 0
                 PROVE  a.n = <<0, 0, 0, 0, 0, 0, 0, 1>>
      BY <2>1 DEF MeansTheGuest, IsReachable, IsLoopback
    <3> DEFINE loopback == <<0, 0, 0, 0, 0, 0, 0, 1>>
    <3>1. loopback \in [1..8 -> Nat]
      OBVIOUS
    <3>2. \A i \in 1..8 : a.n[i] = loopback[i]
      OBVIOUS
    <3>3. QED
      BY <2>1, <3>1, <3>2
  <2>4. QED
    BY <2>2, <2>3
<1>3. QED
  BY <1>1, <1>2 DEF Address

(* The fallback is one of them. *)
LEMMA FallbackIsUsable ==
  FALLBACK_NAMESERVER \in Address /\ IsReachable(FALLBACK_NAMESERVER)
<1> DEFINE a == FALLBACK_NAMESERVER
<1>1. a.ip = 4 /\ a.n = <<1, 1, 1, 1>>
  BY DEF FALLBACK_NAMESERVER
<1>2. a.n \in [1..4 -> Octet] /\ a.n[1] = 1
  BY <1>1 DEF Octet
<1>3. a \in Address
  BY <1>2 DEF FALLBACK_NAMESERVER, Address, Ipv4Addr
<1>4. DOMAIN a.n = 1..4
  BY <1>2
<1>5. QED
  BY <1>1, <1>2, <1>3, <1>4 DEF IsReachable, IsLoopback, IsUnspecified, IsMulticast, IsLinkLocal,
     IsBroadcast, IsAll

(***************************************************************************)
(* The first k lines of a source: the places where a usable address occurs *)
(* first, and the rank of such a place among them.                         *)
(***************************************************************************)
FreshUpTo(s, k) == Fresh(s) \cap 1..k

(* There are no places before the first line, and all after the last. *)
LEMMA FreshIsFinite ==
  ASSUME NEW s \in Seq(Line), NEW k \in Nat
  PROVE  /\ IsFiniteSet(FreshUpTo(s, k)) /\ IsFiniteSet(Fresh(s))
         /\ FreshUpTo(s, 0) = {} /\ FreshUpTo(s, Len(s)) = Fresh(s)
         /\ Cardinality(FreshUpTo(s, k)) \in Nat
<1>1. Fresh(s) \subseteq 1..Len(s) /\ FreshUpTo(s, k) \subseteq 1..Len(s)
  BY DEF Fresh, FreshUpTo
<1>2. IsFiniteSet(1..Len(s))
  BY FS_Interval
<1>3. IsFiniteSet(FreshUpTo(s, k)) /\ IsFiniteSet(Fresh(s))
  BY <1>1, <1>2, FS_Subset
<1>4. QED
  BY <1>1, <1>3, FS_CardinalityType DEF FreshUpTo

(* The next line either is such a place, of the next rank, or changes
   nothing. *)
LEMMA NextLine ==
  ASSUME NEW s \in Seq(Line), NEW k \in Nat, k < Len(s)
  PROVE  /\ k + 1 \notin Fresh(s) => FreshUpTo(s, k + 1) = FreshUpTo(s, k)
         /\ k + 1 \in Fresh(s) =>
              /\ FreshUpTo(s, k + 1) = FreshUpTo(s, k) \cup {k + 1}
              /\ Cardinality(FreshUpTo(s, k + 1)) = Cardinality(FreshUpTo(s, k)) + 1
<1>1. \A i \in Fresh(s) : i \in Nat
  BY DEF Fresh
<1>2. k + 1 \notin Fresh(s) => FreshUpTo(s, k + 1) = FreshUpTo(s, k)
  BY <1>1 DEF FreshUpTo
<1>3. k + 1 \in Fresh(s) => FreshUpTo(s, k + 1) = FreshUpTo(s, k) \cup {k + 1}
  BY <1>1 DEF FreshUpTo
<1>4. k + 1 \notin FreshUpTo(s, k)
  BY DEF FreshUpTo
<1>5. IsFiniteSet(FreshUpTo(s, k))
  BY FreshIsFinite
<1>6. Cardinality(FreshUpTo(s, k) \cup {k + 1}) = Cardinality(FreshUpTo(s, k)) + 1
  BY <1>4, <1>5, FS_AddElement
<1>7. QED
  BY <1>2, <1>3, <1>6

(* Ranks grow with the place: a place up to k has at most as many places
   before it as there are up to k, and a later one has more. *)
LEMMA RankBound ==
  ASSUME NEW s \in Seq(Line), NEW k \in Nat, NEW i \in Fresh(s)
  PROVE  /\ i <= k => Rank(s, i) <= Cardinality(FreshUpTo(s, k))
         /\ i > k => Rank(s, i) > Cardinality(FreshUpTo(s, k))
         /\ Rank(s, i) \in Nat \ {0} /\ Rank(s, i) = Cardinality(FreshUpTo(s, i))
<1>0. i \in Nat \ {0}
  BY DEF Fresh
<1>1. Rank(s, i) = Cardinality(FreshUpTo(s, i))
  BY DEF Rank, FreshUpTo
<1>2. IsFiniteSet(FreshUpTo(s, i)) /\ IsFiniteSet(FreshUpTo(s, k))
  BY <1>0, FreshIsFinite
<1>3. Cardinality(FreshUpTo(s, i)) \in Nat /\ Cardinality(FreshUpTo(s, k)) \in Nat
  BY <1>2, FS_CardinalityType
<1>4. i <= k => Rank(s, i) <= Cardinality(FreshUpTo(s, k))
  <2>1. i <= k => FreshUpTo(s, i) \subseteq FreshUpTo(s, k)
    BY <1>0 DEF FreshUpTo
  <2>2. QED
    BY <1>1, <1>2, <2>1, FS_Subset
<1>5. ASSUME NEW m \in Nat, i > m
      PROVE  Rank(s, i) > Cardinality(FreshUpTo(s, m))
  <2>1. FreshUpTo(s, m) \cup {i} \subseteq FreshUpTo(s, i) /\ i \notin FreshUpTo(s, m)
    BY <1>0, <1>5 DEF FreshUpTo
  <2>2. IsFiniteSet(FreshUpTo(s, m)) /\ Cardinality(FreshUpTo(s, m)) \in Nat
    BY FreshIsFinite
  <2>3. Cardinality(FreshUpTo(s, m) \cup {i}) = Cardinality(FreshUpTo(s, m)) + 1
    BY <2>1, <2>2, FS_AddElement
  <2>4. Cardinality(FreshUpTo(s, m) \cup {i}) <= Cardinality(FreshUpTo(s, i))
    BY <1>2, <2>1, FS_Subset
  <2>5. QED
    BY <1>1, <1>3, <2>2, <2>3, <2>4
<1>6. Rank(s, i) > 0
  <2>1. i > 0 /\ Cardinality(FreshUpTo(s, 0)) = 0
    BY <1>0, FreshIsFinite, FS_EmptySet
  <2>2. QED
    BY <1>5, <2>1
<1>7. QED
  BY <1>1, <1>3, <1>4, <1>5, <1>6

(***************************************************************************)
(* What sanitize has done after k lines of a source.                       *)
(***************************************************************************)
Usable(l) == l # Junk /\ IsReachable(l)

Occurs(l, q) == \E r \in DOMAIN q : q[r] = l

HasRead(s, k, q) ==
  /\ Len(q) = Cardinality(FreshUpTo(s, k))
  /\ \A i \in FreshUpTo(s, k) : q[Rank(s, i)] = s[i]
  /\ \A r \in DOMAIN q : \E i \in FreshUpTo(s, k) : Rank(s, i) = r
  /\ \A j \in 1..k : Usable(s[j]) => Occurs(s[j], q)

(* Nothing has been kept before the first line. *)
LEMMA NothingRead ==
  ASSUME NEW s \in Seq(Line)
  PROVE  HasRead(s, 0, <<>>)
<1>1. FreshUpTo(s, 0) = {} /\ Cardinality(FreshUpTo(s, 0)) = 0
  BY FreshIsFinite, FS_EmptySet
<1>2. QED
  BY <1>1 DEF HasRead

(* One turn of the loop keeps the line if and only if it is a first
   occurrence of a usable address. *)
LEMMA OneTurn ==
  ASSUME NEW s \in Seq(Line), NEW k \in Nat, k < Len(s),
         NEW q \in Seq(Address), HasRead(s, k, q)
  PROVE  /\ Keeps(q, s[k + 1]) => /\ s[k + 1] \in Address
                                  /\ HasRead(s, k + 1, Append(q, s[k + 1]))
         /\ ~Keeps(q, s[k + 1]) => HasRead(s, k + 1, q)
<1> DEFINE l == s[k + 1]
           q2 == Append(q, l)
<1>0. k + 1 \in DOMAIN s /\ l \in Line
  OBVIOUS
<1>1. Keeps(q, l) <=> Usable(l) /\ ~Occurs(l, q)
  BY DEF Keeps, IsAddress, Usable, Occurs
<1>2. Occurs(l, q) => \E j \in 1..k : s[j] = l
  <2> SUFFICES ASSUME NEW r \in DOMAIN q, q[r] = l
               PROVE  \E j \in 1..k : s[j] = l
    BY DEF Occurs
  <2>1. PICK i \in FreshUpTo(s, k) : Rank(s, i) = r
    BY DEF HasRead
  <2>2. i \in 1..k /\ s[i] = l
    BY <2>1 DEF HasRead, FreshUpTo
  <2>3. QED
    BY <2>2
<1>3. Usable(l) /\ (\E j \in 1..k : s[j] = l) => Occurs(l, q)
  BY DEF HasRead
<1>4. k + 1 \in Fresh(s) <=> Usable(l) /\ ~\E j \in 1..k : s[j] = l
  BY <1>0 DEF Fresh, Usable
<1>5. Keeps(q, l) <=> k + 1 \in Fresh(s)
  BY <1>1, <1>2, <1>3, <1>4
<1>6. ASSUME Keeps(q, l)
      PROVE  l \in Address /\ HasRead(s, k + 1, q2)
  <2>1. l \in Address
    BY <1>0, <1>6 DEF Keeps, IsAddress, Line
  <2>2. /\ q2 \in Seq(Address) /\ Len(q2) = Len(q) + 1 /\ q2[Len(q) + 1] = l
        /\ \A r \in DOMAIN q : r \in DOMAIN q2 /\ q2[r] = q[r]
        /\ DOMAIN q2 = DOMAIN q \cup {Len(q) + 1}
    BY <2>1
  <2>3. /\ k + 1 \in Fresh(s)
        /\ FreshUpTo(s, k + 1) = FreshUpTo(s, k) \cup {k + 1}
        /\ Cardinality(FreshUpTo(s, k + 1)) = Len(q) + 1
    BY <1>5, <1>6, NextLine DEF HasRead
  <2>4. Rank(s, k + 1) = Len(q) + 1
    BY <2>3, RankBound
  <2>5. \A i \in FreshUpTo(s, k) : Rank(s, i) \in DOMAIN q
    <3> SUFFICES ASSUME NEW i \in FreshUpTo(s, k)
                 PROVE  Rank(s, i) \in 1..Len(q)
      OBVIOUS
    <3>1. i \in Fresh(s) /\ i <= k
      BY DEF FreshUpTo
    <3>2. QED
      BY <3>1, RankBound DEF HasRead
  <2>6. \A i \in FreshUpTo(s, k + 1) : q2[Rank(s, i)] = s[i]
    <3>1. ASSUME NEW i \in FreshUpTo(s, k)
          PROVE  q2[Rank(s, i)] = s[i]
      BY <2>2, <2>5 DEF HasRead
    <3>2. QED
      BY <2>2, <2>3, <2>4, <3>1
  <2>7. \A r \in DOMAIN q2 : \E i \in FreshUpTo(s, k + 1) : Rank(s, i) = r
    BY <2>2, <2>3, <2>4 DEF HasRead
  <2>8. \A j \in 1..(k + 1) : Usable(s[j]) => Occurs(s[j], q2)
    <3>1. ASSUME NEW j \in 1..k, Usable(s[j])
          PROVE  Occurs(s[j], q2)
      <4>1. PICK r \in DOMAIN q : q[r] = s[j]
        BY <3>1 DEF HasRead, Occurs
      <4>2. QED
        BY <2>2, <4>1 DEF Occurs
    <3>2. Occurs(s[k + 1], q2)
      BY <2>2 DEF Occurs
    <3>3. \A j \in 1..(k + 1) : j \in 1..k \/ j = k + 1
      OBVIOUS
    <3>4. QED
      BY <3>1, <3>2, <3>3
  <2>9. QED
    BY <2>1, <2>2, <2>3, <2>6, <2>7, <2>8 DEF HasRead
<1>7. ASSUME ~Keeps(q, l)
      PROVE  HasRead(s, k + 1, q)
  <2>1. FreshUpTo(s, k + 1) = FreshUpTo(s, k)
    BY <1>5, <1>7, NextLine
  <2>2. \A j \in 1..(k + 1) : j \in 1..k \/ j = k + 1
    OBVIOUS
  <2>3. \A j \in 1..(k + 1) : Usable(s[j]) => Occurs(s[j], q)
    BY <1>1, <1>7, <2>2 DEF HasRead
  <2>4. QED
    BY <2>1, <2>3 DEF HasRead
<1>8. QED
  BY <1>6, <1>7

(* A list is empty if its set of pairs is. *)
LEMMA EmptyPairs ==
  ASSUME NEW q \in Seq(Address)
  PROVE  q = <<>> <=> AsPairs(q) = {}
<1>1. q = <<>> => DOMAIN q = {}
  OBVIOUS
<1>2. q # <<>> => 1 \in DOMAIN q
  OBVIOUS
<1>3. 1 \in DOMAIN q => <<1, q[1]>> \in AsPairs(q)
  BY DEF AsPairs
<1>4. DOMAIN q = {} => AsPairs(q) = {}
  BY DEF AsPairs
<1>5. QED
  BY <1>1, <1>2, <1>3, <1>4

(* Where the loop may end, at the third address or after the last line, it has
   kept what it should. *)
LEMMA WhenRead ==
  ASSUME NEW s \in Seq(Line), NEW k \in 0..Len(s), NEW q \in Seq(Address),
         HasRead(s, k, q), Len(q) <= 3, Len(q) = 3 \/ k = Len(s),
         s # Unreadable
  PROVE  AsPairs(q) = Wanted(s)
<1>1. ASSUME NEW i \in Fresh(s)
      PROVE  Rank(s, i) <= 3 <=> i \in FreshUpTo(s, k)
  <2>1. i \in Nat /\ i <= Len(s) /\ i > 0
    BY <1>1 DEF Fresh
  <2>2. i \in FreshUpTo(s, k) <=> i <= k
    BY <2>1 DEF FreshUpTo
  <2>3. i <= k => Rank(s, i) <= Len(q)
    BY RankBound DEF HasRead
  <2>4. i > k => Rank(s, i) > Len(q)
    BY RankBound DEF HasRead
  <2>5. Rank(s, i) \in Nat /\ Len(q) \in Nat /\ k \in Nat
    BY RankBound
  <2>6. CASE Len(q) = 3
    BY <2>1, <2>2, <2>3, <2>4, <2>5, <2>6
  <2>7. CASE k = Len(s)
    <3>1. i <= k
      BY <2>1, <2>7
    <3>2. Rank(s, i) <= 3
      BY <2>3, <2>5, <3>1
    <3>3. QED
      BY <2>2, <3>1, <3>2
  <2>8. QED
    BY <2>6, <2>7
<1>2. {j \in Fresh(s) : Rank(s, j) <= 3} = FreshUpTo(s, k)
  BY <1>1 DEF FreshUpTo
<1>3. Wanted(s) = {<<Rank(s, i), s[i]>> : i \in FreshUpTo(s, k)}
  BY <1>2 DEF Wanted
<1>4. \A i \in FreshUpTo(s, k) : Rank(s, i) \in DOMAIN q /\ q[Rank(s, i)] = s[i]
  <2> SUFFICES ASSUME NEW i \in FreshUpTo(s, k)
               PROVE  Rank(s, i) \in 1..Len(q)
    BY DEF HasRead
  <2>1. i \in Fresh(s) /\ i <= k
    BY DEF FreshUpTo
  <2>2. QED
    BY <2>1, RankBound DEF HasRead
<1>5. Wanted(s) \subseteq AsPairs(q)
  BY <1>3, <1>4 DEF AsPairs
<1>6. AsPairs(q) \subseteq Wanted(s)
  <2> SUFFICES ASSUME NEW r \in DOMAIN q
               PROVE  <<r, q[r]>> \in Wanted(s)
    BY DEF AsPairs
  <2>1. PICK i \in FreshUpTo(s, k) : Rank(s, i) = r
    BY DEF HasRead
  <2>2. QED
    BY <1>3, <1>4, <2>1
<1>7. QED
  BY <1>5, <1>6

-----------------------------------------------------------------------------
(***************************************************************************)
(* The inductive invariant.                                                *)
(***************************************************************************)
Source(s) == s = Unreadable \/ s \in Seq(Line)

Types ==
  /\ user \in Seq(Address) /\ Source(scutil) /\ Source(resolv)
  /\ lines \in Seq(Line) /\ kept \in Seq(Address)
  /\ servers \in Seq(Address) /\ conf \in Seq(Address)

AllReachable(q) == \A i \in DOMAIN q : IsReachable(q[i])

(* host_nameservers is asked only without --vm-dns, and each source is read
   with nothing kept of an earlier one. *)
Asked ==
  /\ pc \in {"scutil", "resolv", "sanitize_scutil", "sanitize_resolv", "default"} => user = <<>>
  /\ pc \in {"vm_nameservers", "scutil", "resolv"} => kept = <<>>
  /\ pc \in {"resolv", "sanitize_resolv"} => Wanted(scutil) = {}

(* sanitize has read the first k lines, and goes on with the next unless it
   has three addresses. *)
ReadUpTo(s, k, q, rest) ==
  /\ s # Unreadable
  /\ HasRead(s, k, q)
  /\ \/ rest = SubSeq(s, k + 1, Len(s)) /\ Len(q) < 3
     \/ rest = <<>> /\ Len(q) = 3

Sanitizing ==
  /\ pc = "sanitize_scutil" => \E k \in 0..Len(scutil) : ReadUpTo(scutil, k, kept, lines)
  /\ pc = "sanitize_resolv" => \E k \in 0..Len(resolv) : ReadUpTo(resolv, k, kept, lines)

(* The addresses of the first source that has any. *)
OfTheHost == IF Wanted(scutil) # {} THEN Wanted(scutil) ELSE Wanted(resolv)

Choice ==
  IF OfTheHost # {} THEN OfTheHost ELSE {<<1, FALLBACK_NAMESERVER>>}

Chosen ==
  /\ pc = "default" => AsPairs(kept) = OfTheHost
  /\ pc \in {"boot", "running"} =>
       /\ servers # <<>> /\ AllReachable(servers)
       /\ IF user = <<>> THEN AsPairs(servers) = Choice ELSE servers = user
  /\ pc = "running" => conf = servers

Inv == Types /\ AllReachable(kept) /\ Asked /\ Sanitizing /\ Chosen

(* Init establishes Inv. *)
LEMMA InitInv == Init => Inv
<1> SUFFICES ASSUME Init
             PROVE  Inv
  OBVIOUS
<1>1. PICK input \in Inputs : user = input[1] /\ scutil = input[2] /\ resolv = input[3]
  BY DEF Init
<1>2. user \in Seq(Address) /\ Source(scutil) /\ Source(resolv)
  BY <1>1, InputsAreLists DEF Source
<1>3. conf \in Seq(Address)
  BY FallbackIsUsable DEF Init, ShippedConf
<1>4. QED
  BY <1>2, <1>3 DEF Init, Inv, Types, AllReachable, Asked, Sanitizing, Chosen

(* Each action of Nameservers preserves Inv. *)
LEMMA UserServersInv == Inv /\ UserServers => Inv'
<1> SUFFICES ASSUME Inv, UserServers
             PROVE  Inv'
  OBVIOUS
<1>1. Types' /\ AllReachable(kept)'
  BY DEF Inv, Types, AllReachable, UserServers
<1>2. Asked' /\ Sanitizing'
  BY DEF Inv, Asked, Sanitizing, UserServers
<1>3. Chosen'
  <2>1. pc' = "boot" => user # <<>> /\ servers' = user /\ AllReachable(user)
    BY DEF UserServers, AllReachable
  <2>2. pc' \in {"scutil", "rejected", "boot"} /\ user' = user
    BY DEF UserServers
  <2>3. QED
    BY <2>1, <2>2 DEF Chosen, AllReachable
<1>4. QED
  BY <1>1, <1>2, <1>3 DEF Inv

(* The loop of sanitize begins with nothing read. *)
LEMMA SanitizeBegins ==
  ASSUME Inv, NEW s \in Seq(Line), s # Unreadable, lines' = s, kept' = <<>>
  PROVE  \E k \in 0..Len(s) : ReadUpTo(s, k, kept', lines')
<1>1. HasRead(s, 0, kept')
  BY NothingRead
<1>2. SubSeq(s, 1, Len(s)) = s
  OBVIOUS
<1>3. ReadUpTo(s, 0, kept', lines')
  BY <1>1, <1>2 DEF ReadUpTo
<1>4. QED
  BY <1>3

(* scutil is the first source that host_nameservers reads. *)
LEMMA ReadScutilInv == Inv /\ ReadScutil => Inv'
<1> SUFFICES ASSUME Inv, ReadScutil
             PROVE  Inv'
  OBVIOUS
<1>1. Types' /\ AllReachable(kept)'
  BY DEF Inv, Types, AllReachable, ReadScutil, Source
<1>2. Asked'
  BY DEF Inv, Asked, ReadScutil, Wanted
<1>3. Sanitizing'
  <2>1. pc' = "sanitize_scutil" => \E k \in 0..Len(scutil) : ReadUpTo(scutil, k, kept', lines')
    BY SanitizeBegins DEF Inv, Types, Source, Asked, ReadScutil
  <2>2. QED
    BY <2>1 DEF Sanitizing, ReadScutil, ReadUpTo
<1>4. Chosen'
  BY DEF Chosen, ReadScutil
<1>5. QED
  BY <1>1, <1>2, <1>3, <1>4 DEF Inv

(* resolv.conf is read when scutil has nothing to offer. *)
LEMMA ReadResolvInv == Inv /\ ReadResolv => Inv'
<1> SUFFICES ASSUME Inv, ReadResolv
             PROVE  Inv'
  OBVIOUS
<1>1. Types' /\ AllReachable(kept)'
  BY DEF Inv, Types, AllReachable, ReadResolv, Source
<1>2. Asked'
  BY DEF Inv, Asked, ReadResolv, Wanted
<1>3. Sanitizing'
  <2>1. pc' = "sanitize_resolv" => \E k \in 0..Len(resolv) : ReadUpTo(resolv, k, kept', lines')
    BY SanitizeBegins DEF Inv, Types, Source, Asked, ReadResolv
  <2>2. QED
    BY <2>1 DEF Sanitizing, ReadResolv, ReadUpTo
<1>4. Chosen'
  BY DEF Inv, Asked, Chosen, OfTheHost, Wanted, AsPairs, ReadResolv
<1>5. QED
  BY <1>1, <1>2, <1>3, <1>4 DEF Inv

(* One turn of the loop, whichever source it reads. *)
LEMMA SanitizeGoesOn ==
  ASSUME Inv, SanitizeNext, NEW s \in Seq(Line), NEW k \in 0..Len(s), ReadUpTo(s, k, kept, lines)
  PROVE  \E m \in 0..Len(s) : ReadUpTo(s, m, kept', lines')
<1>1. lines = SubSeq(s, k + 1, Len(s)) /\ lines # <<>> /\ Len(kept) < 3
  BY DEF SanitizeNext, ReadUpTo
<1>2. k \in Nat /\ k < Len(s)
  BY <1>1
<1>3. Head(lines) = s[k + 1] /\ Tail(lines) = SubSeq(s, k + 2, Len(s))
  BY <1>1, <1>2
<1>4. kept \in Seq(Address) /\ HasRead(s, k, kept)
  BY DEF Inv, Types, ReadUpTo
<1>5. HasRead(s, k + 1, kept')
  BY <1>2, <1>3, <1>4, OneTurn DEF SanitizeNext
<1>6. kept' \in Seq(Address) /\ Len(kept') <= Len(kept) + 1
  BY <1>2, <1>3, <1>4, OneTurn DEF SanitizeNext
<1>7. \/ lines' = <<>> /\ Len(kept') = 3
      \/ lines' = SubSeq(s, k + 2, Len(s)) /\ Len(kept') # 3
  BY <1>3 DEF SanitizeNext, MAX_NAMESERVERS
<1>8. Len(kept') < 3 \/ Len(kept') = 3
  <2>1. Len(kept) < 3 /\ Len(kept') <= Len(kept) + 1
    BY <1>1, <1>6
  <2>2. Len(kept) \in Nat /\ Len(kept') \in Nat
    BY <1>4, <1>6
  <2>3. \A m, n \in Nat : m < 3 /\ n <= m + 1 => n < 3 \/ n = 3
    OBVIOUS
  <2>4. QED
    BY <2>1, <2>2, <2>3, Zenon
<1>9. k + 1 \in 0..Len(s) /\ SubSeq(s, k + 2, Len(s)) = SubSeq(s, (k + 1) + 1, Len(s))
  BY <1>2
<1>10. ReadUpTo(s, k + 1, kept', lines')
  BY <1>5, <1>7, <1>8, <1>9 DEF ReadUpTo
<1>11. QED
  BY <1>9, <1>10

(* A turn of the loop preserves Inv. *)
LEMMA SanitizeNextInv == Inv /\ SanitizeNext => Inv'
<1> SUFFICES ASSUME Inv, SanitizeNext
             PROVE  Inv'
  OBVIOUS
<1>1. Types'
  <2>1. Head(lines) \in Line /\ Tail(lines) \in Seq(Line)
    BY DEF Inv, Types, SanitizeNext
  <2>2. Keeps(kept, Head(lines)) => Head(lines) \in Address
    BY <2>1 DEF Keeps, IsAddress, Line
  <2>3. lines' \in Seq(Line) /\ kept' \in Seq(Address)
    BY <2>1, <2>2 DEF Inv, Types, SanitizeNext
  <2>4. QED
    BY <2>3 DEF Inv, Types, SanitizeNext
<1>2. AllReachable(kept)'
  <2>1. CASE Keeps(kept, Head(lines))
    <3>1. IsReachable(Head(lines)) /\ kept' = Append(kept, Head(lines)) /\ kept \in Seq(Address)
      BY <2>1 DEF Keeps, SanitizeNext, Inv, Types
    <3>2. \A i \in DOMAIN kept' : kept'[i] = Head(lines) \/ (i \in DOMAIN kept /\ kept'[i] = kept[i])
      BY <3>1
    <3>3. QED
      BY <3>1, <3>2 DEF AllReachable, Inv
  <2>2. CASE ~Keeps(kept, Head(lines))
    BY <2>2 DEF Inv, AllReachable, SanitizeNext
  <2>3. QED
    BY <2>1, <2>2
<1>3. Asked'
  BY DEF Inv, Asked, SanitizeNext
<1>4. Sanitizing'
  <2>1. ASSUME pc = "sanitize_scutil"
        PROVE  \E k \in 0..Len(scutil) : ReadUpTo(scutil, k, kept', lines')
    <3>1. PICK k \in 0..Len(scutil) : ReadUpTo(scutil, k, kept, lines)
      BY <2>1 DEF Inv, Sanitizing
    <3>2. scutil \in Seq(Line)
      BY <3>1 DEF Inv, Types, Source, ReadUpTo
    <3>3. QED
      BY <3>1, <3>2, SanitizeGoesOn
  <2>2. ASSUME pc = "sanitize_resolv"
        PROVE  \E k \in 0..Len(resolv) : ReadUpTo(resolv, k, kept', lines')
    <3>1. PICK k \in 0..Len(resolv) : ReadUpTo(resolv, k, kept, lines)
      BY <2>2 DEF Inv, Sanitizing
    <3>2. resolv \in Seq(Line)
      BY <3>1 DEF Inv, Types, Source, ReadUpTo
    <3>3. QED
      BY <3>1, <3>2, SanitizeGoesOn
  <2>3. QED
    BY <2>1, <2>2 DEF Sanitizing, SanitizeNext, ReadUpTo
<1>5. Chosen'
  BY DEF Chosen, SanitizeNext
<1>6. QED
  BY <1>1, <1>2, <1>3, <1>4, <1>5 DEF Inv

(* At the end of the loop the wanted addresses have been kept. *)
LEMMA SanitizeIsDone ==
  ASSUME Inv, lines = <<>>, NEW s \in Seq(Line), NEW k \in 0..Len(s), ReadUpTo(s, k, kept, lines)
  PROVE  AsPairs(kept) = Wanted(s)
<1>1. kept \in Seq(Address) /\ HasRead(s, k, kept) /\ s # Unreadable
  BY DEF Inv, Types, ReadUpTo
<1>2. SubSeq(s, k + 1, Len(s)) = <<>> => k = Len(s)
  OBVIOUS
<1>3. Len(kept) \in Nat
  BY <1>1
<1>4. Len(kept) <= 3 /\ (Len(kept) = 3 \/ k = Len(s))
  <2>1. \/ SubSeq(s, k + 1, Len(s)) = <<>> /\ Len(kept) < 3
        \/ Len(kept) = 3
    BY DEF ReadUpTo
  <2>2. \A n \in Nat : n < 3 \/ n = 3 => n <= 3
    OBVIOUS
  <2>3. QED
    BY <1>2, <1>3, <2>1, <2>2, Zenon
<1>5. QED
  BY <1>1, <1>4, WhenRead

(* The end of the loop falls back to resolv.conf exactly when it should. *)
LEMMA SanitizeEndInv == Inv /\ SanitizeEnd => Inv'
<1> SUFFICES ASSUME Inv, SanitizeEnd
             PROVE  Inv'
  OBVIOUS
<1>1. Types' /\ AllReachable(kept)'
  BY DEF Inv, Types, AllReachable, SanitizeEnd, Source
<1>2. pc = "sanitize_scutil" => AsPairs(kept) = Wanted(scutil)
  <2> SUFFICES ASSUME pc = "sanitize_scutil"
               PROVE  AsPairs(kept) = Wanted(scutil)
    OBVIOUS
  <2>1. PICK k \in 0..Len(scutil) : ReadUpTo(scutil, k, kept, lines)
    BY DEF Inv, Sanitizing
  <2>2. scutil \in Seq(Line) /\ lines = <<>>
    BY <2>1 DEF Inv, Types, Source, ReadUpTo, SanitizeEnd
  <2>3. QED
    BY <2>1, <2>2, SanitizeIsDone
<1>3. pc = "sanitize_resolv" => AsPairs(kept) = Wanted(resolv)
  <2> SUFFICES ASSUME pc = "sanitize_resolv"
               PROVE  AsPairs(kept) = Wanted(resolv)
    OBVIOUS
  <2>1. PICK k \in 0..Len(resolv) : ReadUpTo(resolv, k, kept, lines)
    BY DEF Inv, Sanitizing
  <2>2. resolv \in Seq(Line) /\ lines = <<>>
    BY <2>1 DEF Inv, Types, Source, ReadUpTo, SanitizeEnd
  <2>3. QED
    BY <2>1, <2>2, SanitizeIsDone
<1>4. kept = <<>> <=> AsPairs(kept) = {}
  BY EmptyPairs DEF Inv, Types
<1>5. Asked'
  BY <1>2, <1>4 DEF Inv, Asked, SanitizeEnd, Wanted
<1>6. Sanitizing'
  BY DEF Sanitizing, SanitizeEnd
<1>7. Chosen'
  <2>1. pc' = "default" => AsPairs(kept) = OfTheHost
    BY <1>2, <1>3, <1>4 DEF Inv, Asked, OfTheHost, SanitizeEnd
  <2>2. QED
    BY <2>1 DEF Chosen, OfTheHost, SanitizeEnd
<1>8. QED
  BY <1>1, <1>5, <1>6, <1>7 DEF Inv

(* default_nameservers puts the fallback in place of an empty list only. *)
LEMMA DefaultServersInv == Inv /\ DefaultServers => Inv'
<1> SUFFICES ASSUME Inv, DefaultServers
             PROVE  Inv'
  OBVIOUS
<1>0. kept \in Seq(Address) /\ AllReachable(kept)
  BY DEF Inv, Types
<1>1. /\ servers' \in Seq(Address) /\ servers' # <<>> /\ AllReachable(servers')
      /\ AsPairs(servers') = Choice
  <2>1. CASE kept = <<>>
    <3>1. servers' = <<FALLBACK_NAMESERVER>>
      BY <2>1 DEF DefaultServers
    <3>2. OfTheHost = {}
      BY <2>1 DEF Inv, Chosen, AsPairs, DefaultServers
    <3>3. /\ servers' \in Seq(Address) /\ servers' # <<>>
          /\ DOMAIN servers' = {1} /\ servers'[1] = FALLBACK_NAMESERVER
      BY <3>1, FallbackIsUsable
    <3>4. QED
      BY <3>2, <3>3, FallbackIsUsable DEF AsPairs, Choice, AllReachable
  <2>2. CASE kept # <<>>
    <3>1. servers' = kept
      BY <2>2 DEF DefaultServers
    <3>2. AsPairs(kept) # {} /\ AsPairs(kept) = OfTheHost
      BY <1>0, <2>2, EmptyPairs DEF Inv, Chosen, DefaultServers
    <3>3. QED
      BY <1>0, <2>2, <3>1, <3>2 DEF Choice
  <2>3. QED
    BY <2>1, <2>2
<1>2. Types' /\ AllReachable(kept)'
  BY <1>1 DEF Inv, Types, AllReachable, DefaultServers, Source
<1>3. Asked' /\ Sanitizing'
  BY DEF Inv, Asked, Sanitizing, DefaultServers
<1>4. Chosen'
  BY <1>1 DEF Inv, Asked, Chosen, Choice, OfTheHost, DefaultServers, AllReachable
<1>5. QED
  BY <1>2, <1>3, <1>4 DEF Inv

(* The guest writes what it was given, which is never nothing. *)
LEMMA WriteResolvConfInv == Inv /\ WriteResolvConf => Inv'
<1> SUFFICES ASSUME Inv, WriteResolvConf
             PROVE  Inv'
  OBVIOUS
<1>1. servers \in Seq(Address) /\ servers # <<>>
  BY DEF Inv, Types, Chosen, WriteResolvConf
<1>2. conf' = servers
  BY <1>1, UnreadableIsNoList DEF WriteResolvConf, DnsEnvValue
<1>3. Types' /\ AllReachable(kept)'
  BY <1>1, <1>2 DEF Inv, Types, AllReachable, WriteResolvConf, Source
<1>4. Asked' /\ Sanitizing'
  BY DEF Inv, Asked, Sanitizing, WriteResolvConf
<1>5. Chosen'
  BY <1>2 DEF Inv, Chosen, Choice, OfTheHost, WriteResolvConf, AllReachable
<1>6. QED
  BY <1>3, <1>4, <1>5 DEF Inv

(* Inv is an invariant of the specification. *)
LEMMA Invariance == Spec => []Inv
<1>1. Inv /\ [Next]_vars => Inv'
  <2> SUFFICES ASSUME Inv, [Next]_vars
               PROVE  Inv'
    OBVIOUS
  <2>1. CASE UNCHANGED vars
    BY <2>1 DEF Inv, Types, Source, AllReachable, Asked, Sanitizing, ReadUpTo, Chosen, Choice,
       OfTheHost, vars
  <2>2. QED
    BY <2>1, UserServersInv, ReadScutilInv, ReadResolvInv, SanitizeNextInv, SanitizeEndInv,
       DefaultServersInv, WriteResolvConfInv DEF Next, Done
<1>2. QED
  BY InitInv, <1>1, PTL DEF Spec

-----------------------------------------------------------------------------
(* Without --vm-dns the guest gets the first three usable addresses of the
   first source that has one, in its order, or the fallback when neither
   has: sanitize's loop computes what Wanted says, whatever the sources hold. *)
THEOREM HostServersWin == Spec => []HostServersAreUsed
<1>1. Inv => HostServersAreUsed
  BY DEF Inv, Chosen, Choice, OfTheHost, HostServersAreUsed
<1>2. QED
  BY Invariance, <1>1, PTL

(* A running guest has a nameserver, and none that means the guest itself or
   needs an interface of the host, whatever list the user or the host gives. *)
THEOREM GuestsCanResolve == Spec => []GuestCanResolve
<1>1. Inv => GuestCanResolve
  <2> SUFFICES ASSUME Inv, pc = "running"
               PROVE  /\ conf # <<>>
                      /\ \A i \in DOMAIN conf : ~MeansTheGuest(conf[i]) /\ ~NeedsAScope(conf[i])
    BY DEF GuestCanResolve
  <2>1. conf \in Seq(Address) /\ conf # <<>> /\ \A i \in DOMAIN conf : IsReachable(conf[i])
    BY DEF Inv, Types, Chosen, AllReachable
  <2>2. \A i \in DOMAIN conf : conf[i] \in Address
    BY <2>1
  <2>3. QED
    BY <2>1, <2>2, ReachableIsUsable
<1>2. QED
  BY Invariance, <1>1, PTL
=============================================================================
