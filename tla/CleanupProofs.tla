----------------------------- MODULE CleanupProofs -----------------------------
(***************************************************************************)
(* What the nightly job must spare, it spares, for every set of runs, of   *)
(* tenants and of tasks, however the account changes under it, as long as  *)
(* the droplets fit one page of the listing (OnePage): a droplet that is   *)
(* deleted between two pages of a longer listing shifts one past the job.  *)
(***************************************************************************)
EXTENDS Cleanup, FiniteSetTheorems, WellFoundedInduction, TLAPS

-------------------------------------------------------------------------------
(* Sequences *)

\* Every set of naturals that is not empty has a least element.
LEMMA NatMin == ASSUME NEW T \in SUBSET Nat, T # {} PROVE \E x \in T : \A y \in T : x <= y
<1>1. IsWellFoundedOn(OpToRel(<,Nat), Nat)
  BY NatLessThanWellFounded, Zenon
<1> DEFINE R == OpToRel(<,Nat)
<1>2. \E x \in T : \A y \in T : ~ (<<y, x>> \in R)
  <2> HIDE DEF R
  <2>1. IsWellFoundedOn(R, Nat)
    BY <1>1, Zenon DEF R
  <2> QED
    BY <2>1, WFMin
<1>3. R = {ss \in Nat \X Nat : ss[1] < ss[2]}
  BY DEF OpToRel
<1> HIDE DEF R
<1>4. PICK x \in T : \A y \in T : ~ (<<y, x>> \in R)
  BY <1>2
<1>5. ASSUME NEW y \in T PROVE x <= y
  <2>1. ~(<<y, x>> \in R)
    BY <1>4
  <2>2. y \in Nat /\ x \in Nat
    OBVIOUS
  <2>3. y < x => <<y, x>> \in R
    BY <1>3, <2>2
  <2> QED
    BY <2>1, <2>2, <2>3
<1> QED
  BY <1>5

\* A sequence that grows at its end or at its beginning.
LEMMA AppendFacts ==
    ASSUME NEW S, NEW s \in Seq(S), NEW x \in S
    PROVE  Append(s, x) \in Seq(S) /\ ToSet(Append(s, x)) = ToSet(s) \cup {x}
<1>1. DOMAIN s = 1 .. Len(s) /\ DOMAIN Append(s, x) = 1 .. Len(s) + 1 /\ Len(s) \in Nat
  OBVIOUS
<1>2. \A i \in 1 .. Len(s) : Append(s, x)[i] = s[i]
  OBVIOUS
<1>3. Append(s, x)[Len(s) + 1] = x
  OBVIOUS
<1>4. Append(s, x) \in Seq(S)
  OBVIOUS
<1> QED
  BY <1>1, <1>2, <1>3, <1>4 DEF ToSet

LEMMA AddedFacts ==
    ASSUME NEW S, NEW s \in Seq(S), NEW x \in S, NEW t \in Added(s, x)
    PROVE  t \in Seq(S) /\ ToSet(t) = ToSet(s) \cup {x}
<1>1. CASE t = Append(s, x)
  BY <1>1, AppendFacts
<1>2. CASE t = <<x>> \o s
  <2>1. t \in Seq(S) /\ Len(t) = Len(s) + 1 /\ Len(s) \in Nat
    BY <1>2
  <2>2. DOMAIN s = 1 .. Len(s) /\ DOMAIN t = 1 .. Len(s) + 1
    BY <2>1
  <2>3. t[1] = x
    BY <1>2
  <2>4. \A i \in 1 .. Len(s) : t[i + 1] = s[i]
    BY <1>2
  <2>5. ToSet(t) \subseteq ToSet(s) \cup {x}
    <3> SUFFICES ASSUME NEW i \in 1 .. Len(s) + 1 PROVE t[i] \in ToSet(s) \cup {x}
      BY <2>2 DEF ToSet
    <3>1. CASE i = 1
      BY <3>1, <2>3
    <3>2. CASE i # 1
      <4>1. i - 1 \in 1 .. Len(s) /\ (i - 1) + 1 = i
        BY <3>2, <2>1
      <4>2. t[i] = s[i - 1]
        BY <4>1, <2>4
      <4> QED
        BY <4>1, <4>2, <2>2 DEF ToSet
    <3> QED
      BY <3>1, <3>2
  <2>6. ToSet(s) \cup {x} \subseteq ToSet(t)
    <3>1. \A i \in 1 .. Len(s) : i + 1 \in 1 .. Len(s) + 1
      BY <2>1
    <3> QED
      BY <2>1, <2>2, <2>3, <2>4, <3>1 DEF ToSet
  <2> QED
    BY <2>1, <2>5, <2>6
<1> QED
  BY <1>1, <1>2 DEF Added

\* What Without leaves of a listing.
LEMMA WithoutFacts ==
    ASSUME NEW S, NEW s \in Seq(S), NEW gone
    PROVE  Without(s, gone) \in Seq(S) /\ ToSet(Without(s, gone)) = ToSet(s) \ gone
<1> DEFINE n == Len(s)
           Step(q, i) == IF s[i] \in gone THEN q ELSE Append(q, s[i])
           Def(f, m) == f = [i \in 0 .. m |-> IF i = 0 THEN <<>> ELSE Step(f[i - 1], i)]
<1>1. n \in Nat /\ DOMAIN s = 1 .. n /\ \A i \in 1 .. n : s[i] \in S
  OBVIOUS
<1> HIDE DEF n
<1>2. \E f : Def(f, n)
  <2> DEFINE T == {m \in Nat : ~\E f : Def(f, m)}
  <2> SUFFICES ASSUME T # {} PROVE FALSE
    BY <1>1
  <2>1. PICK m \in T : \A k \in T : m <= k
    BY NatMin
  <2>2. m \in Nat /\ ~\E f : Def(f, m)
    OBVIOUS
  <2>3. CASE m = 0
    <3> DEFINE f == [i \in 0 .. 0 |-> <<>>]
    <3>1. Def(f, 0)
      <4> HIDE DEF Step
      <4> QED
        OBVIOUS
    <3> QED
      BY <3>1, <2>2, <2>3
  <2>4. CASE m # 0
    <3>1. m - 1 \in Nat /\ m - 1 \notin T
      <4> HIDE DEF T
      <4> QED
        BY <2>1, <2>2, <2>4
    <3>2. PICK g : Def(g, m - 1)
      BY <3>1
    <3> HIDE DEF T, Step
    <3> DEFINE h == [i \in 0 .. m |-> IF i = m THEN Step(g[m - 1], m) ELSE g[i]]
    <3>3. ASSUME NEW i \in 0 .. m
          PROVE  h[i] = IF i = 0 THEN <<>> ELSE Step(h[i - 1], i)
      <4>1. CASE i = m
        BY <4>1, <2>2, <2>4
      <4>2. CASE i # m
        <5>1. i \in 0 .. m - 1 /\ h[i] = g[i]
          BY <4>2, <2>2
        <5>2. g[i] = IF i = 0 THEN <<>> ELSE Step(g[i - 1], i)
          BY <5>1, <3>2
        <5>3. i # 0 => h[i - 1] = g[i - 1]
          BY <4>2, <2>2
        <5> QED
          BY <5>1, <5>2, <5>3
      <4> QED
        BY <4>1, <4>2
    <3>4. h = [i \in 0 .. m |-> h[i]]
      OBVIOUS
    <3> HIDE DEF h
    <3>5. Def(h, m)
      BY <3>3, <3>4
    <3> QED
      BY <3>5, <2>2
  <2> QED
    BY <2>3, <2>4
<1> DEFINE rest == CHOOSE f : Def(f, n)
<1>3. Without(s, gone) = rest[n]
  BY DEF Without, n
<1>4. Def(rest, n)
  BY <1>2
<1> HIDE DEF rest
<1>5. ASSUME NEW i \in 0 .. n PROVE rest[i] = IF i = 0 THEN <<>> ELSE Step(rest[i - 1], i)
  <2> HIDE DEF Step
  <2> QED
    BY <1>4
<1> DEFINE Good(i) == rest[i] \in Seq(S) /\ ToSet(rest[i]) = {s[j] : j \in 1 .. i} \ gone
<1>6. \A i \in 0 .. n : Good(i)
  <2> DEFINE T == {i \in 0 .. n : ~Good(i)}
  <2> SUFFICES ASSUME T # {} PROVE FALSE
    OBVIOUS
  <2>0. T \in SUBSET Nat
    BY <1>1
  <2>1. PICK i \in T : \A k \in T : i <= k
    BY <2>0, NatMin
  <2>2. i \in 0 .. n /\ ~Good(i)
    OBVIOUS
  <2>3. CASE i = 0
    <3>1. rest[i] = <<>>
      BY <1>1, <1>5, <2>3
    <3> QED
      BY <3>1, <2>2, <2>3 DEF ToSet
  <2>4. CASE i # 0
    <3>1. i - 1 \in 0 .. n /\ i \in 1 .. n /\ i - 1 \notin T
      <4> HIDE DEF T, Good
      <4> QED
        BY <1>1, <2>1, <2>2, <2>4
    <3>2. Good(i - 1)
      BY <3>1
    <3> DEFINE q == rest[i - 1]
    <3>3. rest[i] = Step(q, i)
      BY <1>5, <2>2, <2>4
    <3>4. q \in Seq(S) /\ ToSet(q) = {s[j] : j \in 1 .. i - 1} \ gone
      BY <3>2
    <3>5. {s[j] : j \in 1 .. i} = {s[j] : j \in 1 .. i - 1} \cup {s[i]}
      BY <1>1, <3>1
    <3> HIDE DEF q, T
    <3>6. CASE s[i] \in gone
      BY <2>2, <3>3, <3>4, <3>5, <3>6
    <3>7. CASE s[i] \notin gone
      <4>1. rest[i] = Append(q, s[i])
        BY <3>3, <3>7
      <4>2. rest[i] \in Seq(S) /\ ToSet(rest[i]) = ToSet(q) \cup {s[i]}
        BY <1>1, <3>1, <3>4, <4>1, AppendFacts
      <4> QED
        BY <2>2, <3>4, <3>5, <3>7, <4>2
    <3> QED
      BY <3>6, <3>7
  <2> QED
    BY <2>3, <2>4
<1>7. Good(n)
  <2> HIDE DEF Good
  <2> QED
    BY <1>1, <1>6
<1>8. ToSet(s) = {s[j] : j \in 1 .. n}
  BY <1>1 DEF ToSet
<1> QED
  BY <1>3, <1>7, <1>8

\* A finite set can be listed.
LEMMA SetToSeqFacts ==
    ASSUME NEW S, IsFiniteSet(S)
    PROVE  SetToSeq(S) \in Seq(S)
<1> DEFINE n == Cardinality(S)
<1>1. n \in Nat /\ ExistsBijection(1 .. n, S)
  BY FS_CardinalityType
<1> HIDE DEF n
<1>2. \E f \in [1 .. n -> S] : IsInjective(f)
  BY <1>1 DEF ExistsBijection, Bijection, Injection
<1>3. SetToSeq(S) = CHOOSE f \in [1 .. n -> S] : IsInjective(f)
  BY Zenon DEF SetToSeq, n
<1>4. SetToSeq(S) \in [1 .. n -> S]
  BY <1>2, <1>3
<1> QED
  BY <1>1, <1>4

\* What a page holds is from the listing.
LEMMA PageFacts ==
    ASSUME NEW S, NEW seq \in Seq(S), page \in Nat
    PROVE  Page(seq) \in Seq(S)
<1> DEFINE k == page * PerPage
           e == (page + 1) * PerPage
           m == IF e > Len(seq) THEN Len(seq) ELSE e
<1>1. k \in Nat /\ e \in Nat
  BY PageAssumption
<1>2. Page(seq) = SubSeq(seq, k + 1, m)
  BY DEF Page
<1> HIDE DEF k, e
<1>3. m \in Nat /\ m <= Len(seq)
  BY <1>1
<1> HIDE DEF m
<1>4. SubSeq(seq, k + 1, m) \in Seq(S)
  BY <1>1, <1>3
<1> QED
  BY <1>2, <1>4

\* A listing that fits one page is read whole.
LEMMA OnePageFacts ==
    ASSUME NEW S, NEW seq \in Seq(S), page = 0, Len(seq) < PerPage
    PROVE  ToSet(Page(seq)) = ToSet(seq) /\ LastPage(seq)
<1>1. page * PerPage + 1 = 1 /\ (page + 1) * PerPage = PerPage /\ PerPage \in Nat
  BY PageAssumption
<1>2. Page(seq) = SubSeq(seq, 1, Len(seq))
  BY <1>1 DEF Page
<1>3. SubSeq(seq, 1, Len(seq)) = seq
  OBVIOUS
<1> QED
  BY <1>2, <1>3 DEF LastPage

\* What is listed, with what was listed before.
LEMMA ListingFacts ==
    ASSUME TypeOK, NEW seq \in Seq(Droplets \cup Firewalls)
    PROVE  /\ Listing(seq) \subseteq [name : Droplets \cup Firewalls, pinned : BOOLEAN]
           /\ Candidates(seq) \subseteq Runs \X (Nodes \cup {"firewall"})
           /\ \A x \in Candidates(seq) : extractPrefix(x) \in Runs \ skipped
<1> DEFINE S == Droplets \cup Firewalls
<1>1. Page(seq) \in Seq(S)
  BY PageFacts DEF TypeOK
<1>2. ToSet(Page(seq)) \subseteq S
  BY <1>1 DEF ToSet
<1>3. listed \subseteq [name : S, pinned : BOOLEAN]
  BY DEF TypeOK
<1> HIDE DEF S
<1>4. Listing(seq) \subseteq [name : S, pinned : BOOLEAN]
  <2>1. ASSUME NEW x \in ToSet(Page(seq))
        PROVE  [name |-> x, pinned |-> x \in pinned] \in [name : S, pinned : BOOLEAN]
    <3>1. x \in S /\ (x \in pinned) \in BOOLEAN
      BY <1>2
    <3> QED
      BY <3>1, Zenon
  <2> QED
    BY <1>3, <2>1, Zenon DEF Listing
<1>5. \A x \in Candidates(seq) : x \in S /\ extractPrefix(x) \in Runs \ skipped
  BY <1>4 DEF Candidates
<1>6. ASSUME NEW x \in S, extractPrefix(x) \in Runs PROVE x \in Runs \X (Nodes \cup {"firewall"})
  BY <1>6 DEF S, Droplets, Firewalls, extractPrefix
<1> QED
  BY <1>4, <1>5, <1>6 DEF S

-------------------------------------------------------------------------------
(* Types *)

\* The account has droplets and firewalls of other tenants, and no run.
LEMMA TypeInit == Init => TypeOK
<1> SUFFICES ASSUME Init PROVE TypeOK
  OBVIOUS
<1> DEFINE node == CHOOSE n \in Nodes : TRUE
           D == Foreign \X {node}
           F == Foreign \X {"firewall"}
<1>1. node \in Nodes
  BY OwnersAssumption
<1> HIDE DEF node
<1>2. IsFiniteSet(D) /\ IsFiniteSet(F)
  BY OwnersAssumption, FS_Singleton, FS_Product
<1>3. D \subseteq Droplets /\ F \subseteq Firewalls
  BY <1>1 DEF Droplets, Firewalls
<1>4. droplets = SetToSeq(D) /\ firewalls = SetToSeq(F)
  BY DEF Init, node
<1> HIDE DEF D, F
<1>5. droplets \in Seq(D) /\ firewalls \in Seq(F)
  BY <1>2, <1>4, SetToSeqFacts
<1>6. droplets \in Seq(Droplets) /\ firewalls \in Seq(Firewalls)
  BY <1>3, <1>5
<1> QED
  BY <1>6 DEF Init, TypeOK, Droplets

LEMMA TypeStep == ASSUME TypeOK, [Next]_vars PROVE TypeOK'
<1> USE DEF TypeOK, account, job
<1>0. droplets \in Seq(Droplets \cup Firewalls) /\ firewalls \in Seq(Droplets \cup Firewalls)
  OBVIOUS
<1>1. ASSUME NEW r \in Runs, CreateProvider(r) PROVE TypeOK'
  <2>1. firewalls' \in Seq(Firewalls)
    BY <1>1, AddedFacts DEF CreateProvider, Firewalls
  <2> QED
    BY <1>1, <2>1 DEF CreateProvider
<1>2. ASSUME NEW r \in Runs, NEW n \in Nodes, CreateDroplet(r, n) PROVE TypeOK'
  <2>0. <<r, n>> \in Droplets
    BY DEF Droplets
  <2>1. droplets' \in Seq(Droplets)
    BY <1>2, <2>0, AddedFacts DEF CreateDroplet
  <2> QED
    BY <1>2, <2>0, <2>1 DEF CreateDroplet
<1>3. ASSUME NEW r \in Runs, teardownTasks(r) \/ teardownFirewall(r) PROVE TypeOK'
  <2>1. droplets' \in Seq(Droplets) /\ firewalls' \in Seq(Firewalls)
    BY <1>3, WithoutFacts DEF teardownTasks, teardownFirewall
  <2> QED
    BY <1>3, <2>1 DEF teardownTasks, teardownFirewall
<1>4. ASSUME NEW r \in Runs, Leak(r) PROVE TypeOK'
  BY <1>4 DEF Leak
<1>5. ASSUME NEW d \in Droplets, Pin(d) \/ Age(d) PROVE TypeOK'
  BY <1>5, OwnersAssumption DEF Pin, Age, Droplets, extractPrefix
<1>6. ASSUME NEW d \in Droplets, ForeignDelete(d) \/ DeleteDroplet(d) PROVE TypeOK'
  <2>1. droplets' \in Seq(Droplets)
    BY <1>6, WithoutFacts DEF ForeignDelete, DeleteDroplet
  <2> QED
    BY <1>6, <2>1 DEF ForeignDelete, DeleteDroplet
<1>7. ASSUME NEW f \in Firewalls, DeleteFirewall(f) PROVE TypeOK'
  <2>1. firewalls' \in Seq(Firewalls)
    BY <1>7, WithoutFacts DEF DeleteFirewall
  <2> QED
    BY <1>7, <2>1 DEF DeleteFirewall
<1>8. CASE StartCleanup
  <2>1. ToSet(droplets) \subseteq Droplets
    BY DEF ToSet
  <2> QED
    BY <1>8, <2>1 DEF StartCleanup
<1>9. CASE getSkippedDropletPrefixes
  <2>1. /\ Listing(droplets) \subseteq [name : Droplets \cup Firewalls, pinned : BOOLEAN]
        /\ Candidates(droplets) \subseteq Runs \X (Nodes \cup {"firewall"})
    BY <1>0, ListingFacts
  <2>2. CASE ReadPage(droplets)
    BY <1>9, <2>1, <2>2 DEF getSkippedDropletPrefixes, ReadPage
  <2>3. CASE ~ReadPage(droplets)
    BY <1>9, <2>1, <2>3 DEF getSkippedDropletPrefixes, EndListing
  <2> QED
    BY <2>2, <2>3
<1>10. CASE ListDroplets
  <2>1. /\ Listing(droplets) \subseteq [name : Droplets \cup Firewalls, pinned : BOOLEAN]
        /\ Candidates(droplets) \subseteq Runs \X (Nodes \cup {"firewall"})
    BY <1>0, ListingFacts
  <2>2. CASE ReadPage(droplets)
    BY <1>10, <2>1, <2>2 DEF ListDroplets, ReadPage
  <2>3. CASE ~ReadPage(droplets)
    BY <1>10, <2>1, <2>3 DEF ListDroplets, EndListing
  <2> QED
    BY <2>2, <2>3
<1>11. CASE ListFirewalls
  <2>1. /\ Listing(firewalls) \subseteq [name : Droplets \cup Firewalls, pinned : BOOLEAN]
        /\ Candidates(firewalls) \subseteq Runs \X (Nodes \cup {"firewall"})
    BY <1>0, ListingFacts
  <2>2. CASE ReadPage(firewalls)
    BY <1>11, <2>1, <2>2 DEF ListFirewalls, ReadPage
  <2>3. CASE ~ReadPage(firewalls)
    BY <1>11, <2>1, <2>3 DEF ListFirewalls, EndListing
  <2> QED
    BY <2>2, <2>3
<1>12. CASE EndOfLoop \/ Fatal \/ \E x \in todo : DeleteFails(x)
  BY <1>12 DEF EndOfLoop, Fatal, DeleteFails
<1>13. CASE UNCHANGED vars
  BY <1>13 DEF vars
<1> HIDE DEF TypeOK
<1> QED
  BY <1>1, <1>2, <1>3, <1>4, <1>5, <1>6, <1>7, <1>8, <1>9, <1>10, <1>11, <1>12, <1>13
  DEF Next, Job, Others

\* The job and the account keep their types, and what the job marks is of a run.
THEOREM CleanupTypeCorrect == Spec => []TypeOK
  BY TypeInit, TypeStep, PTL DEF Spec

-------------------------------------------------------------------------------
(* The inductive invariant *)

\* The droplets that the job lists to find the runs to spare fit one page.
OnePage == pc = "listSkipped" => Len(droplets) < PerPage

\* A droplet that exists or existed when the job began has an age, so it is not created
\* again under its name, and a tag that it had then it keeps.
AgeInv ==
    /\ \A d \in ToSet(droplets) \cup atStart.droplets : age[d] # "none"
    /\ atStart.pinned \subseteq atStart.droplets \cap pinned

\* Only the second and the third listing may be under way with pages read before.
PageInv == pc \notin {"listDroplets", "listFirewalls"} => page = 0 /\ listed = {}

\* What is marked in a delete phase is of a run that is not skipped.
TodoInv ==
    /\ todo # {} => pc \in {"deleteDroplets", "deleteFirewalls"}
    /\ \A x \in todo : extractPrefix(x) \in Runs \ skipped

\* From the end of the first listing on, the job skips the run of every droplet that was
\* there when it began, that is still there, and that was tagged then or is not old now.
SpareInv ==
    pc \in {"listDroplets", "deleteDroplets", "listFirewalls", "deleteFirewalls"} =>
        \A d \in atStart.droplets \cap ToSet(droplets) :
            /\ extractPrefix(d) \in Runs
            /\ d \in atStart.pinned \/ age[d] \in {"recent", "unknown"}
            => extractPrefix(d) \in skipped

IInv == TypeOK /\ AgeInv /\ PageInv /\ TodoInv /\ SpareInv

\* No run has a droplet and the job is idle.
LEMMA IInvInit == Init => IInv
<1> SUFFICES ASSUME Init PROVE IInv
  OBVIOUS
<1> DEFINE D == Foreign \X {CHOOSE n \in Nodes : TRUE}
<1>1. IsFiniteSet(D) /\ droplets = SetToSeq(D)
  BY OwnersAssumption, FS_Singleton, FS_Product DEF Init
<1>2. \A d \in D : extractPrefix(d) \in Foreign
  BY DEF extractPrefix
<1> HIDE DEF D
<1>3. ToSet(droplets) \subseteq D
  <2>1. droplets \in Seq(D)
    BY <1>1, SetToSeqFacts
  <2> QED
    BY <2>1 DEF ToSet
<1>4. TypeOK
  BY TypeInit
<1>5. ToSet(droplets) \subseteq Droplets
  BY <1>4 DEF TypeOK, ToSet
<1>6. AgeInv
  BY <1>2, <1>3, <1>5 DEF Init, AgeInv
<1> QED
  BY <1>4, <1>6 DEF Init, IInv, PageInv, TodoInv, SpareInv

\* How the droplets change: the set of them grows by one without an age, or shrinks.
LEMMA AccountStep ==
    ASSUME TypeOK, AgeInv, [Next]_vars
    PROVE  /\ \A d \in ToSet(droplets)' : d \in ToSet(droplets) \/ age[d] = "none"
           /\ \A d \in ToSet(droplets)' : d \in Droplets /\ age'[d] # "none"
           /\ \A d \in Droplets : age[d] # "none" => age'[d] # "none"
           /\ \A d \in Droplets : age[d] # "none" /\ age'[d] \in {"recent", "unknown"}
                                    => age[d] \in {"recent", "unknown"}
           /\ pinned \subseteq pinned'
<1> USE DEF account, job
<1>0. ToSet(droplets) \subseteq Droplets
  BY DEF TypeOK, ToSet
<1>1. ASSUME NEW r \in Runs, NEW n \in Nodes, CreateDroplet(r, n)
      PROVE  /\ ToSet(droplets)' = ToSet(droplets) \cup {<<r, n>>}
             /\ <<r, n>> \in Droplets /\ age[<<r, n>>] = "none"
             /\ \E a \in {"recent", "unknown"} : age' = [age EXCEPT ![<<r, n>>] = a]
             /\ pinned' = pinned
  <2>0. <<r, n>> \in Droplets
    BY DEF Droplets
  <2>1. ToSet(droplets') = ToSet(droplets) \cup {<<r, n>>}
    BY <1>1, <2>0, AddedFacts DEF CreateDroplet, TypeOK
  <2> QED
    BY <1>1, <2>0, <2>1 DEF CreateDroplet
<1>2. ASSUME NEW d \in Droplets, Age(d)
      PROVE  /\ age[d] = "recent" /\ age' = [age EXCEPT ![d] = "old"]
             /\ droplets' = droplets /\ pinned' = pinned
  BY <1>2 DEF Age
<1>3. ASSUME NEW gone, droplets' = Without(droplets, gone)
      PROVE  ToSet(droplets)' \subseteq ToSet(droplets)
  BY <1>3, WithoutFacts DEF TypeOK
<1>4. CASE \E r \in Runs, n \in Nodes : CreateDroplet(r, n)
  <2>1. PICK r \in Runs, n \in Nodes : CreateDroplet(r, n)
    BY <1>4
  <2> DEFINE c == <<r, n>>
  <2>2. /\ ToSet(droplets)' = ToSet(droplets) \cup {c}
        /\ c \in Droplets /\ age[c] = "none"
        /\ \E a \in {"recent", "unknown"} : age' = [age EXCEPT ![c] = a]
        /\ pinned' = pinned
    BY <1>1, <2>1
  <2> HIDE DEF c
  <2> QED
    BY <1>0, <2>2 DEF TypeOK, AgeInv
<1>5. CASE \E d \in Droplets : Age(d)
  <2>1. PICK d \in Droplets : Age(d)
    BY <1>5
  <2>2. /\ age[d] = "recent" /\ age' = [age EXCEPT ![d] = "old"]
        /\ droplets' = droplets /\ pinned' = pinned
    BY <1>2, <2>1
  <2> QED
    BY <1>0, <2>2 DEF TypeOK, AgeInv
<1>6. ASSUME ~(\E r \in Runs, n \in Nodes : CreateDroplet(r, n)), ~(\E d \in Droplets : Age(d))
      PROVE  /\ age' = age /\ pinned \subseteq pinned'
             /\ ToSet(droplets)' \subseteq ToSet(droplets)
  <2>1. ASSUME NEW r \in Runs, CreateProvider(r) \/ teardownFirewall(r) \/ Leak(r)
        PROVE  UNCHANGED <<droplets, age, pinned>>
    BY <2>1 DEF CreateProvider, teardownFirewall, Leak
  <2>2. ASSUME NEW r \in Runs, teardownTasks(r)
        PROVE  UNCHANGED <<age, pinned>> /\ ToSet(droplets)' \subseteq ToSet(droplets)
    BY <2>2, <1>3 DEF teardownTasks
  <2>3. ASSUME NEW d \in Droplets, ForeignDelete(d) \/ DeleteDroplet(d)
        PROVE  UNCHANGED <<age, pinned>> /\ ToSet(droplets)' \subseteq ToSet(droplets)
    BY <2>3, <1>3 DEF ForeignDelete, DeleteDroplet
  <2>4. ASSUME NEW d \in Droplets, Pin(d)
        PROVE  UNCHANGED <<droplets, age>> /\ pinned \subseteq pinned'
    BY <2>4 DEF Pin
  <2>5. ASSUME NEW f \in Firewalls, DeleteFirewall(f) PROVE UNCHANGED <<droplets, age, pinned>>
    BY <2>5 DEF DeleteFirewall
  <2>6. CASE \/ StartCleanup \/ getSkippedDropletPrefixes \/ ListDroplets \/ ListFirewalls
             \/ EndOfLoop \/ Fatal \/ UNCHANGED vars \/ \E x \in todo : DeleteFails(x)
    BY <2>6 DEF StartCleanup, getSkippedDropletPrefixes, ListDroplets, ListFirewalls, EndOfLoop,
                Fatal, DeleteFails, vars
  <2> QED
    BY <1>6, <2>1, <2>2, <2>3, <2>4, <2>5, <2>6 DEF Next, Job, Others
<1>7. CASE /\ ~(\E r \in Runs, n \in Nodes : CreateDroplet(r, n))
           /\ ~(\E d \in Droplets : Age(d))
  BY <1>0, <1>6, <1>7 DEF AgeInv
<1> QED
  BY <1>4, <1>5, <1>7

\* Steps of the runs, of users and of time leave the job alone.
LEMMA OthersLeaveJob == Others => UNCHANGED <<pc, page, listed, skipped, todo, atStart>>
  BY DEF Others, CreateProvider, CreateDroplet, teardownTasks, teardownFirewall, Leak, Pin,
         ForeignDelete, Age, job

\* atStart is set when the job begins and cleared when it ends.
LEMMA HistoryStep ==
    ASSUME [Next]_vars
    PROVE  \/ atStart' = atStart
           \/ StartCleanup
           \/ atStart' = [droplets |-> {}, pinned |-> {}] /\ pc' = "idle"
<1> USE DEF account, job
<1>1. CASE Others \/ UNCHANGED vars
  BY <1>1, OthersLeaveJob DEF vars
<1>2. CASE Fatal \/ EndOfLoop
  BY <1>2 DEF Fatal, EndOfLoop
<1>3. CASE getSkippedDropletPrefixes \/ ListDroplets \/ ListFirewalls
  BY <1>3 DEF getSkippedDropletPrefixes, ListDroplets, ListFirewalls
<1>4. CASE \/ \E d \in Droplets : DeleteDroplet(d)
           \/ \E f \in Firewalls : DeleteFirewall(f)
           \/ \E x \in todo : DeleteFails(x)
  BY <1>4 DEF DeleteDroplet, DeleteFirewall, DeleteFails
<1> QED
  BY <1>1, <1>2, <1>3, <1>4 DEF Next, Job

LEMMA AgeStep == ASSUME IInv, [Next]_vars PROVE AgeInv'
<1> USE DEF IInv
<1>1. /\ \A d \in ToSet(droplets)' : d \in Droplets /\ age'[d] # "none"
      /\ \A d \in Droplets : age[d] # "none" => age'[d] # "none"
      /\ pinned \subseteq pinned'
  BY AccountStep
<1>2. CASE atStart' = atStart
  BY <1>1, <1>2 DEF AgeInv, TypeOK
<1>3. CASE StartCleanup
  BY <1>1, <1>3 DEF StartCleanup, AgeInv, account
<1>4. CASE atStart' = [droplets |-> {}, pinned |-> {}]
  BY <1>1, <1>4 DEF AgeInv
<1> QED
  BY <1>2, <1>3, <1>4, HistoryStep

LEMMA PageStep == ASSUME IInv, OnePage, [Next]_vars PROVE PageInv'
<1> USE DEF IInv, PageInv, account, job
<1>1. CASE Others \/ UNCHANGED vars
  BY <1>1, OthersLeaveJob DEF vars
<1>2. CASE StartCleanup \/ Fatal \/ EndOfLoop
  BY <1>2 DEF StartCleanup, Fatal, EndOfLoop
<1>3. CASE getSkippedDropletPrefixes
  <2>1. LastPage(droplets)
    BY <1>3, OnePageFacts DEF getSkippedDropletPrefixes, OnePage, TypeOK
  <2> QED
    BY <1>3, <2>1 DEF getSkippedDropletPrefixes, ReadPage, EndListing
<1>4. CASE ListDroplets \/ ListFirewalls
  BY <1>4 DEF ListDroplets, ListFirewalls, ReadPage, EndListing
<1>5. CASE \/ \E d \in Droplets : DeleteDroplet(d)
           \/ \E f \in Firewalls : DeleteFirewall(f)
           \/ \E x \in todo : DeleteFails(x)
  BY <1>5 DEF DeleteDroplet, DeleteFirewall, DeleteFails
<1> QED
  BY <1>1, <1>2, <1>3, <1>4, <1>5 DEF Next, Job

LEMMA TodoStep == ASSUME IInv, [Next]_vars PROVE TodoInv'
<1> USE DEF IInv, TodoInv, account, job
<1>0. droplets \in Seq(Droplets \cup Firewalls) /\ firewalls \in Seq(Droplets \cup Firewalls)
  BY DEF TypeOK
<1>1. CASE Others \/ UNCHANGED vars
  BY <1>1, OthersLeaveJob DEF vars
<1>2. CASE StartCleanup \/ Fatal \/ EndOfLoop
  BY <1>2 DEF StartCleanup, Fatal, EndOfLoop
<1>3. CASE getSkippedDropletPrefixes
  BY <1>3 DEF getSkippedDropletPrefixes, ReadPage, EndListing
<1>4. CASE ListDroplets
  <2>1. \A x \in Candidates(droplets) : extractPrefix(x) \in Runs \ skipped
    BY <1>0, ListingFacts
  <2> QED
    BY <1>4, <2>1 DEF ListDroplets, ReadPage, EndListing
<1>5. CASE ListFirewalls
  <2>1. \A x \in Candidates(firewalls) : extractPrefix(x) \in Runs \ skipped
    BY <1>0, ListingFacts
  <2> QED
    BY <1>5, <2>1 DEF ListFirewalls, ReadPage, EndListing
<1>6. CASE \/ \E d \in Droplets : DeleteDroplet(d)
           \/ \E f \in Firewalls : DeleteFirewall(f)
           \/ \E x \in todo : DeleteFails(x)
  BY <1>6 DEF DeleteDroplet, DeleteFirewall, DeleteFails
<1> QED
  BY <1>1, <1>2, <1>3, <1>4, <1>5, <1>6 DEF Next, Job

\* The phase after the first listing is entered from it, with skipped just computed, or
\* from another such phase, with skipped as it was.
LEMMA SkippedStep ==
    ASSUME [Next]_vars,
           pc' \in {"listDroplets", "deleteDroplets", "listFirewalls", "deleteFirewalls"}
    PROVE  /\ atStart' = atStart
           /\ \/ /\ pc \in {"listDroplets", "deleteDroplets", "listFirewalls", "deleteFirewalls"}
                 /\ skipped' = skipped
              \/ /\ getSkippedDropletPrefixes
                 /\ EndListing(droplets, "listDroplets")
<1> USE DEF account, job
<1>1. CASE Others \/ UNCHANGED vars
  BY <1>1, OthersLeaveJob DEF vars
<1>2. CASE StartCleanup \/ Fatal \/ EndOfLoop
  BY <1>2 DEF StartCleanup, Fatal, EndOfLoop
<1>3. CASE getSkippedDropletPrefixes
  BY <1>3 DEF getSkippedDropletPrefixes, ReadPage, EndListing
<1>4. CASE ListDroplets \/ ListFirewalls
  BY <1>4 DEF ListDroplets, ListFirewalls, ReadPage, EndListing
<1>5. CASE \/ \E d \in Droplets : DeleteDroplet(d)
           \/ \E f \in Firewalls : DeleteFirewall(f)
           \/ \E x \in todo : DeleteFails(x)
  BY <1>5 DEF DeleteDroplet, DeleteFirewall, DeleteFails
<1> QED
  BY <1>1, <1>2, <1>3, <1>4, <1>5 DEF Next, Job

\* The first listing, when it fits a page, leaves out no run with a droplet to spare.
LEMMA FirstListing ==
    ASSUME IInv, OnePage, getSkippedDropletPrefixes, EndListing(droplets, "listDroplets"),
           NEW d \in ToSet(droplets), extractPrefix(d) \in Runs,
           d \in pinned \/ age[d] \in {"recent", "unknown"}
    PROVE  extractPrefix(d) \in skipped'
<1> DEFINE e == [name |-> d, pinned |-> d \in pinned]
<1>1. pc = "listSkipped" /\ page = 0
  BY DEF getSkippedDropletPrefixes, IInv, PageInv
<1>2. ToSet(Page(droplets)) = ToSet(droplets) /\ LastPage(droplets)
  BY <1>1, OnePageFacts DEF IInv, TypeOK, OnePage
<1>3. e \in Listing(droplets)
  BY <1>2 DEF Listing
<1>4. e.name = d /\ Spares(e)
  BY DEF Spares
<1>5. skipped' = {r \in Runs : \E x \in Listing(droplets) : extractPrefix(x.name) = r /\ Spares(x)}
  BY <1>2 DEF getSkippedDropletPrefixes, ReadPage
<1> HIDE DEF e
<1> QED
  BY <1>3, <1>4, <1>5

LEMMA SpareStep == ASSUME IInv, OnePage, [Next]_vars PROVE SpareInv'
<1> DEFINE Later == {"listDroplets", "deleteDroplets", "listFirewalls", "deleteFirewalls"}
<1> SUFFICES ASSUME pc' \in Later,
                    NEW d \in atStart'.droplets, d \in ToSet(droplets)', extractPrefix(d) \in Runs,
                    d \in atStart'.pinned \/ age'[d] \in {"recent", "unknown"}
             PROVE  extractPrefix(d) \in skipped'
  BY DEF SpareInv, extractPrefix
<1>1. atStart' = atStart
  BY SkippedStep
<1>2. age[d] # "none" /\ d \in Droplets
  BY <1>1 DEF IInv, AgeInv, TypeOK
<1>3. /\ d \in ToSet(droplets)
      /\ age'[d] \in {"recent", "unknown"} => age[d] \in {"recent", "unknown"}
  BY <1>2, AccountStep DEF IInv
<1>4. d \in atStart.pinned \/ age[d] \in {"recent", "unknown"}
  BY <1>1, <1>3
<1>5. CASE pc \in Later /\ skipped' = skipped
  BY <1>1, <1>3, <1>4, <1>5 DEF IInv, SpareInv
<1>6. CASE getSkippedDropletPrefixes /\ EndListing(droplets, "listDroplets")
  <2>1. d \in pinned \/ age[d] \in {"recent", "unknown"}
    BY <1>4 DEF IInv, AgeInv
  <2> QED
    BY <1>3, <1>6, <2>1, FirstListing
<1> QED
  BY <1>5, <1>6, SkippedStep

LEMMA IInvStep == IInv /\ OnePage /\ [Next]_vars => IInv'
  BY TypeStep, AgeStep, PageStep, TodoStep, SpareStep DEF IInv

LEMMA Invariance == Spec /\ []OnePage => []IInv
  BY IInvInit, IInvStep, PTL DEF Spec

-------------------------------------------------------------------------------
(* Theorems *)

\* What a run has in a delete phase the job is about to delete only if none of the run's
\* droplets was to be spared.
LEMMA SparedNotCondemned ==
    ASSUME IInv, NEW d \in atStart.droplets \cap ToSet(droplets),
           d \in atStart.pinned \/ age[d] \in {"recent", "unknown"}
    PROVE  extractPrefix(d) \notin Condemned
<1> SUFFICES ASSUME NEW x \in todo, extractPrefix(x) = extractPrefix(d) PROVE FALSE
  BY DEF Condemned
<1>1. /\ pc \in {"deleteDroplets", "deleteFirewalls"}
      /\ extractPrefix(d) \in Runs \ skipped
  BY DEF IInv, TodoInv
<1> QED
  BY <1>1 DEF IInv, SpareInv

\* A run with a droplet tagged LONG_RUNNING before the job began keeps what it has for as
\* long as the droplet exists, when the first listing fits a page.
THEOREM LongRunningSpared == Spec /\ []OnePage => []LongRunningKept
<1>1. IInv => LongRunningKept
  BY SparedNotCondemned DEF LongRunningKept, IInv, AgeInv
<1> QED
  BY <1>1, Invariance, PTL

\* So does a run with a droplet that existed when the job began and that is younger than
\* 30 minutes or of unknown age.
THEOREM RecentSpared == Spec /\ []OnePage => []RecentRunsKept
<1>1. IInv => RecentRunsKept
  BY SparedNotCondemned DEF RecentRunsKept
<1> QED
  BY <1>1, Invariance, PTL

===============================================================================
