--------------------------- MODULE NetworkProofs ---------------------------
(***************************************************************************)
(* What `iptables -I' and `iptables -D' do to the number of copies of a    *)
(* rule, for every chain and every rule.                                   *)
(***************************************************************************)
EXTENDS Network, FiniteSetTheorems, TLAPS

(* A rule stands at finitely many positions of a chain.                    *)
LEMMA PlacesFinite ==
  ASSUME NEW S, NEW c \in Seq(S), NEW q
  PROVE  IsFiniteSet(Places(c, q)) /\ Copies(c, q) \in Nat
  <1>1. Places(c, q) \in SUBSET Nat /\ \A k \in Places(c, q) : k <= Len(c)
    BY DEF Places
  <1>2. Len(c) \in Nat
    OBVIOUS
  <1>3. IsFiniteSet(Places(c, q))
    BY <1>1, <1>2, FS_BoundedSetOfNaturals
  <1> QED BY <1>3, FS_CardinalityType DEF Copies

(* A chain that holds the rule has copies of it, and the other way round.  *)
LEMMA CopiesPositive ==
  ASSUME NEW S, NEW c \in Seq(S), NEW q
  PROVE  Places(c, q) # {} <=> Copies(c, q) > 0
  BY PlacesFinite, FS_EmptySet DEF Copies

(* An inserted rule is a chain again.                                      *)
LEMMA InsertType ==
  ASSUME NEW S, NEW c \in Seq(S), NEW r \in S
  PROVE  /\ Insert(c, r) \in Seq(S)
         /\ Len(Insert(c, r)) = Len(c) + 1
         /\ \A k \in 1 .. Len(c) + 1 : Insert(c, r)[k] = IF k = 1 THEN r ELSE c[k - 1]
  BY DEF Insert

(* -I adds one copy of its rule and leaves the others alone.               *)
LEMMA CopiesInsert ==
  ASSUME NEW S, NEW c \in Seq(S), NEW r \in S, NEW q
  PROVE  Copies(Insert(c, r), q) = IF q = r THEN Copies(c, q) + 1 ELSE Copies(c, q)
  <1> DEFINE P == Places(c, q)
             T == {k + 1 : k \in P}
             f == [k \in P |-> k + 1]
  <1>0. P \subseteq 1 .. Len(c) /\ Len(c) \in Nat
    BY DEF Places
  <1>1. f \in Bijection(P, T)
    <2>1. f \in [P -> T]
      OBVIOUS
    <2>2. \A a, b \in P : f[a] = f[b] => a = b
      BY <1>0
    <2>3. \A t \in T : \E s \in P : f[s] = t
      OBVIOUS
    <2> QED BY <2>1, <2>2, <2>3 DEF Bijection, Injection, Surjection, IsInjective
  <1>2. IsFiniteSet(T) /\ Cardinality(T) = Copies(c, q)
    BY <1>1, PlacesFinite, FS_Bijection DEF ExistsBijection, Copies
  <1>3. 1 \notin T
    BY <1>0
  <1>4. Places(Insert(c, r), q) = IF q = r THEN T \cup {1} ELSE T
    <2>1. DOMAIN Insert(c, r) = 1 .. Len(c) + 1
      BY InsertType
    <2>2. ASSUME NEW k \in 1 .. Len(c) + 1
          PROVE  Insert(c, r)[k] = q <=> (IF k = 1 THEN r = q ELSE k \in T)
      <3>0. Insert(c, r)[k] = IF k = 1 THEN r ELSE c[k - 1]
        BY InsertType
      <3>1. CASE k = 1
        BY <3>0, <3>1
      <3>2. CASE k # 1
        <4>1. k - 1 \in 1 .. Len(c) /\ k = (k - 1) + 1
          BY <3>2, <1>0
        <4>2. k - 1 \in P <=> c[k - 1] = q
          BY <4>1 DEF Places
        <4>3. k \in T <=> k - 1 \in P
          BY <4>1, <1>0
        <4> QED BY <3>0, <3>2, <4>2, <4>3
      <3> QED BY <3>1, <3>2
    <2>3. T \subseteq 1 .. Len(c) + 1
      BY <1>0
    <2>4. 1 \in 1 .. Len(c) + 1
      BY <1>0
    <2> QED BY <1>3, <2>1, <2>2, <2>3, <2>4 DEF Places
  <1>5. CASE q = r
    BY <1>2, <1>3, <1>4, <1>5, FS_AddElement DEF Copies
  <1>6. CASE q # r
    BY <1>2, <1>4, <1>6 DEF Copies
  <1> QED BY <1>5, <1>6

----------------------------------------------------------------------------
(* A rule that is in the chain has a first place there.                    *)
LEMMA FirstPlace ==
  ASSUME NEW S, NEW c \in Seq(S), NEW r, Places(c, r) # {}
  PROVE  FirstAt(c, r) \in 1 .. Len(c) /\ c[FirstAt(c, r)] = r
  <1>1. Places(c, r) \subseteq Nat
    BY DEF Places
  <1>2. PICK k \in Places(c, r) : \A j \in Places(c, r) : <<j, k>> \notin OpToRel(<, Nat)
    BY <1>1, NatLessThanWellFounded, WFMin
  <1>3. \A j \in Places(c, r) : ~(j < k)
    BY <1>1, <1>2 DEF OpToRel
  <1>4. k \in DOMAIN c /\ c[k] = r /\ \A j \in DOMAIN c : j < k => c[j] # r
    BY <1>3 DEF Places
  <1> QED BY <1>4 DEF FirstAt

(* A chain from which a rule is deleted is a chain again.                  *)
LEMMA DeleteType ==
  ASSUME NEW S, NEW c \in Seq(S), NEW r, Places(c, r) # {}
  PROVE  /\ DeleteFirst(c, r) \in Seq(S)
         /\ Len(DeleteFirst(c, r)) = Len(c) - 1
         /\ \A k \in 1 .. Len(c) - 1 :
                DeleteFirst(c, r)[k] = IF k < FirstAt(c, r) THEN c[k] ELSE c[k + 1]
  <1>1. FirstAt(c, r) \in 1 .. Len(c)
    BY FirstPlace
  <1>2. Len(c) - 1 \in Nat
    BY <1>1
  <1> QED BY <1>1, <1>2 DEF DeleteFirst

(* -D takes one copy of its rule away and leaves the others alone.         *)
LEMMA CopiesDelete ==
  ASSUME NEW S, NEW c \in Seq(S), NEW r, NEW q, Places(c, r) # {}
  PROVE  Copies(DeleteFirst(c, r), q) = IF q = r THEN Copies(c, q) - 1 ELSE Copies(c, q)
  <1> DEFINE at == FirstAt(c, r)
             d  == DeleteFirst(c, r)
             P  == Places(c, q) \ {at}
             T  == Places(d, q)
             g  == [k \in P |-> IF k < at THEN k ELSE k - 1]
  <1>0. at \in 1 .. Len(c) /\ c[at] = r /\ Len(c) \in Nat
    BY FirstPlace
  <1>1. DOMAIN d = 1 .. Len(c) - 1
    BY DeleteType
  <1>2. P \subseteq (1 .. Len(c)) \ {at}
    BY DEF Places
  <1> HIDE DEF at, d
  <1>3. \A k \in 1 .. Len(c) - 1 : d[k] = IF k < at THEN c[k] ELSE c[k + 1]
    BY DeleteType DEF at, d
  <1>4. g \in [P -> T]
    <2>1. ASSUME NEW k \in P PROVE (IF k < at THEN k ELSE k - 1) \in T
      <3>1. k \in 1 .. Len(c) /\ k # at /\ c[k] = q
        BY <1>2 DEF Places
      <3>2. CASE k < at
        <4>1. k \in 1 .. Len(c) - 1
          BY <1>0, <3>1, <3>2
        <4> QED BY <1>1, <1>3, <3>1, <3>2, <4>1 DEF Places
      <3>3. CASE ~(k < at)
        <4>1. k - 1 \in 1 .. Len(c) - 1 /\ ~(k - 1 < at) /\ (k - 1) + 1 = k
          BY <1>0, <3>1, <3>3
        <4>2. d[k - 1] = c[k]
          BY <1>3, <4>1
        <4> QED BY <1>1, <3>1, <3>3, <4>1, <4>2 DEF Places
      <3> QED BY <3>2, <3>3
    <2> QED BY <2>1
  <1>5. \A a, b \in P : g[a] = g[b] => a = b
    BY <1>0, <1>2
  <1>6. ASSUME NEW t \in T PROVE \E s \in P : g[s] = t
    <2>1. t \in 1 .. Len(c) - 1 /\ d[t] = q
      BY <1>1 DEF Places
    <2>2. CASE t < at
      <3>1. t \in P
        BY <1>0, <1>3, <2>1, <2>2 DEF Places
      <3> QED BY <3>1, <2>2
    <2>3. CASE ~(t < at)
      <3>1. c[t + 1] = q /\ t + 1 \in 1 .. Len(c) /\ t + 1 # at /\ ~(t + 1 < at) /\ (t + 1) - 1 = t
        BY <1>0, <1>3, <2>1, <2>3
      <3>2. t + 1 \in P
        BY <3>1 DEF Places
      <3> QED BY <3>1, <3>2
    <2> QED BY <2>2, <2>3
  <1>7. g \in Bijection(P, T)
    BY <1>4, <1>5, <1>6 DEF Bijection, Injection, Surjection, IsInjective
  <1>8. IsFiniteSet(P) /\ Cardinality(P) = IF q = r THEN Copies(c, q) - 1 ELSE Copies(c, q)
    <2>1. at \in Places(c, q) <=> q = r
      BY <1>0 DEF Places
    <2> QED BY <2>1, PlacesFinite, FS_RemoveElement DEF Copies
  <1>9. Cardinality(T) = Cardinality(P)
    BY <1>7, <1>8, FS_Bijection DEF ExistsBijection
  <1> QED BY <1>8, <1>9 DEF Copies, d

(* A chain without a copy of any rule is empty.                            *)
LEMMA NoCopies ==
  ASSUME NEW S, NEW c \in Seq(S), \A r \in S : Copies(c, r) = 0
  PROVE  c = <<>>
  <1>1. ASSUME Len(c) # 0 PROVE FALSE
    <2>1. 1 \in DOMAIN c /\ c[1] \in S
      BY <1>1
    <2>2. 1 \in Places(c, c[1])
      BY <2>1 DEF Places
    <2> QED BY <2>1, <2>2, CopiesPositive
  <1> QED BY <1>1
=============================================================================
