-------------------------- MODULE AllocatorProofs --------------------------
(***************************************************************************)
(* Proofs about two of the allocators that MCAllocators checks.             *)
(*                                                                         *)
(* FreeList, for every size of memory and both allocators, when the callers *)
(* keep to FreesBelowFree: the list is well formed between any two calls,   *)
(* and alloc_pages gives out the block its policy promises.  The inductive  *)
(* invariant is CallInv: the list in the middle of a call, and what the     *)
(* call has found out so far.  What FreeListInv says in terms of the walk   *)
(* along the list, of sums and of runs of pages follows from it by          *)
(* induction over the walk and over the set of blocks.                      *)
(*                                                                         *)
(* Slub, for any page size, caches, requests and memory in which the slabs  *)
(* fit: SlubInv is inductive.  Every call touches one slab, and the lists   *)
(* and the bitmaps follow that slab.                                        *)
(***************************************************************************)
EXTENDS FreeList, Slub, DataLemmas
-----------------------------------------------------------------------------
(* Circular lists in the order of addresses, for any set of entries.        *)
FollowsIn(S, e, f) ==
    \/ f \in S /\ e < f /\ \A q \in S : e < q => f <= q
    \/ f = HEAD /\ \A q \in S : q <= e

OrderedIn(S, nx, pv) ==
    \A e \in S \cup {HEAD} :
        /\ FollowsIn(S, e, nx[e]) /\ pv[nx[e]] = e
        /\ pv[e] \in S \cup {HEAD} /\ nx[pv[e]] = e

Links == [Entry -> Entry \cup {NIL}]

(* Pages, links and the list head as numbers.                               *)
LEMMA NPageNat == /\ NPage \in Nat \ {0} /\ Pages \in SUBSET Nat /\ 0 \in Pages
                  /\ \A x \in Int : x \in Pages <=> 0 <= x /\ x < NPage
                  /\ HEAD \in Int /\ HEAD < 0 /\ HEAD \in Entry /\ HEAD \notin Pages
                  /\ NIL \notin Entry /\ Entry = Pages \cup {HEAD}
BY FreeListAssumption DEF Pages, HEAD, NIL, Entry

(* Pages are numbers above the list head, so the order of the list is their *)
(* order.                                                                   *)
LEMMA EntriesInt ==
  ASSUME NEW S \in SUBSET Pages
  PROVE  /\ \A e \in S : e \in Int /\ e >= 0 /\ HEAD < e /\ e # HEAD /\ e \in Entry /\ e < NPage
         /\ \A e \in S \cup {HEAD} : e \in Int /\ HEAD <= e /\ e \in Entry
         /\ HEAD \notin S /\ HEAD \in Int
BY NPageNat, FreeListAssumption DEF Pages, HEAD, Entry

(* ListOrdered with the links as parameters.                                *)
LEMMA ListedOrdered == ListOrdered <=> OrderedIn(OnList, next, prev)
BY DEF ListOrdered, OrderedIn, Follows, FollowsIn

(* What that order says of the two links.                                   *)
Neighbours(S, nx, pv) ==
  /\ \A e \in S \cup {HEAD} : nx[e] \in S \cup {HEAD} /\ pv[e] \in S \cup {HEAD}
  /\ \A e \in S \cup {HEAD} : pv[nx[e]] = e /\ nx[pv[e]] = e
  /\ \A e \in S \cup {HEAD} : \A q \in S : e < q => nx[e] # HEAD /\ nx[e] <= q
  /\ \A e \in S \cup {HEAD} : nx[e] # HEAD => e < nx[e]
  /\ \A e \in S \cup {HEAD} : \A q \in S : q < e => q <= pv[e]
  /\ \A e \in S : pv[e] < e
  /\ \A q \in S : q <= pv[HEAD]

(* The links of an ordered list lead to its neighbours.                     *)
LEMMA NextIn ==
  ASSUME NEW S \in SUBSET Pages, NEW nx, NEW pv, OrderedIn(S, nx, pv)
  PROVE  Neighbours(S, nx, pv)
<1>0. /\ \A e \in S : e \in Int /\ e >= 0 /\ HEAD < e /\ e # HEAD
      /\ \A e \in S \cup {HEAD} : e \in Int /\ HEAD <= e
  BY EntriesInt
<1>1. \A e \in S \cup {HEAD} : nx[e] \in S \cup {HEAD} /\ pv[e] \in S \cup {HEAD}
  BY DEF OrderedIn, FollowsIn
<1>2. \A e \in S \cup {HEAD} : pv[nx[e]] = e /\ nx[pv[e]] = e
  BY DEF OrderedIn
<1>3. ASSUME NEW e \in S \cup {HEAD}, NEW q \in S, e < q
      PROVE  nx[e] # HEAD /\ nx[e] <= q
  <2>1. FollowsIn(S, e, nx[e])
    BY DEF OrderedIn
  <2>2. ~ (q <= e)
    BY <1>0, <1>3
  <2>3. nx[e] \in S
    BY <2>1, <2>2 DEF FollowsIn
  <2> QED BY <1>0, <1>3, <2>1, <2>3 DEF FollowsIn
<1>4. ASSUME NEW e \in S \cup {HEAD}, nx[e] # HEAD
      PROVE  e < nx[e]
  BY <1>4 DEF OrderedIn, FollowsIn
<1>5. \A e \in S \cup {HEAD} : e \in Int /\ nx[e] \in Int /\ pv[e] \in Int
  BY <1>0, <1>1
<1>6. ASSUME NEW e \in S \cup {HEAD}, NEW q \in S, q < e
      PROVE  q <= pv[e]
  <2>1. pv[e] \in S \cup {HEAD} /\ nx[pv[e]] = e
    BY <1>1, <1>2
  <2>2. pv[e] < q => e <= q
    BY <1>3, <2>1
  <2> QED BY <1>0, <1>5, <1>6, <2>2
<1>7. ASSUME NEW e \in S
      PROVE  pv[e] < e
  <2>1. pv[e] \in S \cup {HEAD} /\ nx[pv[e]] = e /\ e # HEAD
    BY <1>0, <1>1, <1>2
  <2> QED BY <1>4, <2>1
<1>8. ASSUME NEW q \in S
      PROVE  q <= pv[HEAD]
  <2>1. pv[HEAD] \in S \cup {HEAD} /\ nx[pv[HEAD]] = HEAD
    BY <1>1, <1>2
  <2>2. ~ (pv[HEAD] < q)
    BY <1>3, <2>1
  <2> QED BY <1>0, <1>5, <2>2
<1> QED BY <1>1, <1>2, <1>3, <1>4, <1>6, <1>7, <1>8 DEF Neighbours

(* __list_add between two neighbours.                                       *)
LEMMA InsertOrdered ==
  ASSUME NEW S \in SUBSET Pages, NEW nx \in Links, NEW pv \in Links, OrderedIn(S, nx, pv),
         NEW elm \in Pages \ S, NEW before \in S \cup {HEAD}, NEW after, after = nx[before],
         before < elm, after = HEAD \/ elm < after
  PROVE  OrderedIn(S \cup {elm}, [nx EXCEPT ![before] = elm, ![elm] = after],
                                 [pv EXCEPT ![after] = elm, ![elm] = before])
<1> DEFINE nx1 == [nx EXCEPT ![before] = elm, ![elm] = after]
           pv1 == [pv EXCEPT ![after] = elm, ![elm] = before]
           T == S \cup {elm}
<1>0. /\ Neighbours(S, nx, pv)
      /\ \A e \in S : e \in Int /\ e >= 0 /\ HEAD < e /\ e # HEAD /\ e \in Entry
      /\ \A e \in S \cup {HEAD} : e \in Int /\ HEAD <= e /\ e \in Entry
  BY NextIn, EntriesInt
<1>1. /\ S \subseteq Entry /\ elm \in Entry /\ before \in Entry /\ after \in Entry
      /\ after \in S \cup {HEAD} /\ elm # before /\ elm # after /\ elm # HEAD
      /\ before \in Int /\ elm \in Int /\ after \in Int /\ elm > HEAD
  <2>1. after \in S \cup {HEAD}
    BY <1>0 DEF Neighbours
  <2>2. elm \in Int /\ elm \in Entry /\ elm > HEAD /\ elm \notin S \cup {HEAD}
    BY NPageNat
  <2> QED BY <1>0, <2>1, <2>2
<1>2. /\ nx1[elm] = after /\ nx1[before] = elm /\ pv1[elm] = before /\ pv1[after] = elm
      /\ \A e \in S \cup {HEAD} : e # before => nx1[e] = nx[e]
      /\ \A e \in S \cup {HEAD} : e # after => pv1[e] = pv[e]
  BY <1>1, NPageNat DEF Links
<1> HIDE DEF nx1, pv1
<1>3. \A e \in S \cup {HEAD} : nx[e] = after <=> e = before
  BY <1>0 DEF Neighbours
<1>4. \A q \in S : q > before => q >= after /\ after # HEAD
  BY <1>0 DEF Neighbours
<1>5. \A q \in S : q <= before \/ q > elm
  <2> TAKE q \in S
  <2>1. q \in Int /\ q >= 0
    BY NPageNat
  <2> QED BY <1>1, <1>4, <2>1
<1>6. ASSUME NEW e \in T \cup {HEAD}
      PROVE  FollowsIn(T, e, nx1[e])
  <2>0. e \in Int /\ \A q \in T : q \in Int
    BY NPageNat
  <2>1. CASE e = elm
    <3>1. \A q \in T : elm < q => after <= q /\ after # HEAD
      BY <1>1, <1>4, <2>0
    <3> QED BY <1>1, <1>2, <2>0, <2>1, <3>1 DEF FollowsIn
  <2>2. CASE e = before
    <3>1. \A q \in T : before < q => elm <= q
      BY <1>1, <1>5, <2>0
    <3> QED BY <1>1, <1>2, <2>0, <2>2, <3>1 DEF FollowsIn
  <2>3. CASE e \in S \cup {HEAD} /\ e # before
    <3>1. nx1[e] = nx[e] /\ FollowsIn(S, e, nx[e])
      BY <1>2, <2>3 DEF OrderedIn
    <3>2. CASE e < elm
      <4>1. e < before
        BY <1>1, <1>5, <2>0, <2>3, <3>2, NPageNat
      <4>2. before # HEAD /\ before \in S
        BY <4>1, <2>0, <2>3, NPageNat
      <4>3. nx[e] <= before /\ nx[e] # HEAD
        BY <4>1, <4>2, <2>3, <1>0 DEF Neighbours
      <4>4. nx[e] \in S /\ e < nx[e] /\ \A q \in S : e < q => nx[e] <= q
        BY <3>1, <4>3 DEF FollowsIn
      <4>5. nx[e] \in Int
        BY <1>0, <4>4
      <4>6. nx[e] <= elm
        BY <1>1, <4>3, <4>5
      <4> QED BY <3>1, <4>4, <4>6 DEF FollowsIn
    <3>3. CASE ~ (e < elm)
      <4>1. elm < e
        BY <1>1, <2>0, <2>3, <3>3
      <4>2. ~ (e < elm) /\ elm <= e
        BY <1>1, <2>0, <4>1
      <4> QED BY <3>1, <4>2 DEF FollowsIn
    <3> QED BY <3>2, <3>3
  <2> QED BY <2>1, <2>2, <2>3
<1>7. ASSUME NEW e \in T \cup {HEAD}
      PROVE  pv1[nx1[e]] = e
  <2>1. CASE e = elm \/ e = before
    BY <1>2, <2>1
  <2>2. CASE e # elm /\ e # before
    <3>1. e \in S \cup {HEAD} /\ nx1[e] = nx[e] /\ nx[e] # after /\ nx[e] \in S \cup {HEAD}
      BY <1>2, <1>3, <2>2, <1>0 DEF Neighbours
    <3>2. pv1[nx[e]] = pv[nx[e]] /\ pv[nx[e]] = e
      BY <1>2, <3>1, <1>0 DEF Neighbours
    <3> QED BY <3>1, <3>2
  <2> QED BY <2>1, <2>2
<1>8. ASSUME NEW e \in T \cup {HEAD}
      PROVE  pv1[e] \in T \cup {HEAD} /\ nx1[pv1[e]] = e
  <2>1. CASE e = elm \/ e = after
    BY <1>1, <1>2, <2>1
  <2>2. CASE e # elm /\ e # after
    <3>1. e \in S \cup {HEAD} /\ pv1[e] = pv[e] /\ pv[e] \in S \cup {HEAD} /\ nx[pv[e]] = e
      BY <1>2, <2>2, <1>0 DEF Neighbours
    <3>2. pv[e] # before
      BY <3>1, <2>2
    <3> QED BY <1>2, <3>1, <3>2
  <2> QED BY <2>1, <2>2
<1>9. OrderedIn(T, nx1, pv1)
  BY <1>6, <1>7, <1>8 DEF OrderedIn
<1> QED BY <1>9 DEF nx1, pv1

(* list_del.                                                                *)
LEMMA DeleteOrdered ==
  ASSUME NEW S \in SUBSET Pages, NEW nx \in Links, NEW pv \in Links, OrderedIn(S, nx, pv),
         NEW elm \in S
  PROVE  OrderedIn(S \ {elm}, [nx EXCEPT ![pv[elm]] = nx[elm]], [pv EXCEPT ![nx[elm]] = pv[elm]])
<1> DEFINE nx1 == [nx EXCEPT ![pv[elm]] = nx[elm]]
           pv1 == [pv EXCEPT ![nx[elm]] = pv[elm]]
           T == S \ {elm}
           before == pv[elm]
           after == nx[elm]
<1>0. /\ Neighbours(S, nx, pv)
      /\ \A e \in S : e \in Int /\ e >= 0 /\ HEAD < e /\ e # HEAD /\ e \in Entry
      /\ \A e \in S \cup {HEAD} : e \in Int /\ HEAD <= e /\ e \in Entry
  BY NextIn, EntriesInt
<1>1. /\ S \subseteq Entry /\ elm \in Entry /\ before \in Entry /\ after \in Entry
      /\ before \in T \cup {HEAD} /\ after \in T \cup {HEAD}
      /\ before < elm /\ (after # HEAD => elm < after) /\ elm > HEAD
      /\ before \in Int /\ elm \in Int /\ after \in Int
  <2>1. before \in S \cup {HEAD} /\ after \in S \cup {HEAD} /\ before < elm
        /\ (after # HEAD => elm < after)
    BY <1>0 DEF Neighbours
  <2>2. before \in Int /\ after \in Int /\ elm \in Int /\ elm > HEAD
        /\ elm \in Entry /\ before \in Entry /\ after \in Entry
    BY <1>0, <2>1
  <2>3. before # elm /\ after # elm
    BY <1>0, <2>1, <2>2
  <2> HIDE DEF before, after
  <2> QED BY <2>1, <2>2, <2>3, NPageNat
<1>2. /\ nx1[before] = after /\ pv1[after] = before
      /\ \A e \in T \cup {HEAD} : e # before => nx1[e] = nx[e]
      /\ \A e \in T \cup {HEAD} : e # after => pv1[e] = pv[e]
  BY <1>1, NPageNat DEF Links
<1> HIDE DEF nx1, pv1
<1>3. \A e \in S \cup {HEAD} : (nx[e] = elm <=> e = before) /\ (pv[e] = elm <=> e = after)
  BY <1>0 DEF Neighbours
<1>4. \A e \in S \cup {HEAD} : (nx[e] = after <=> e = elm)
  BY <1>0 DEF Neighbours
<1> HIDE DEF before, after
<1>5. ASSUME NEW e \in T \cup {HEAD}
      PROVE  FollowsIn(T, e, nx1[e]) /\ pv1[nx1[e]] = e
  <2>0. e \in Int /\ \A q \in S : q \in Int /\ q > HEAD
    BY NPageNat
  <2>1. CASE e = before
    <3>1. \A q \in S : elm < q => after <= q /\ after # HEAD
      BY <1>0 DEF Neighbours, after
    <3>2. \A q \in S : before < q => elm <= q
      BY <1>0, <1>1, NPageNat DEF Neighbours, before
    <3>3. \A q \in T : before < q => after <= q /\ after # HEAD
      BY <1>1, <2>0, <3>1, <3>2
    <3>4. before <= HEAD \/ before \in T
      BY <1>1, NPageNat
    <3>5. after # HEAD => before < after
      BY <1>1
    <3> QED BY <1>1, <1>2, <2>0, <2>1, <3>3, <3>5 DEF FollowsIn
  <2>2. CASE e # before
    <3>1. nx1[e] = nx[e] /\ nx[e] # elm /\ nx[e] # after /\ FollowsIn(S, e, nx[e])
      BY <1>0, <1>2, <1>3, <1>4, <2>2 DEF OrderedIn
    <3>2. nx[e] \in T \cup {HEAD} /\ pv[nx[e]] = e
      BY <3>1, <1>0 DEF Neighbours
    <3>3. FollowsIn(T, e, nx[e])
      BY <3>1, <3>2 DEF FollowsIn
    <3> QED BY <1>2, <3>1, <3>2, <3>3
  <2> QED BY <2>1, <2>2
<1>6. ASSUME NEW e \in T \cup {HEAD}
      PROVE  pv1[e] \in T \cup {HEAD} /\ nx1[pv1[e]] = e
  <2>1. CASE e = after
    BY <1>1, <1>2, <2>1
  <2>2. CASE e # after
    <3>1. pv1[e] = pv[e] /\ pv[e] # elm /\ pv[e] \in S \cup {HEAD} /\ nx[pv[e]] = e
      BY <1>2, <1>3, <2>2, <1>0 DEF Neighbours
    <3>2. pv[e] # before
      BY <3>1, <2>2, <1>3, <1>1
    <3> QED BY <1>2, <3>1, <3>2
  <2> QED BY <2>1, <2>2
<1>9. OrderedIn(T, nx1, pv1)
  BY <1>5, <1>6 DEF OrderedIn
<1> QED BY <1>9 DEF nx1, pv1, before, after

(* A block takes the place of another on the list.                          *)
LEMMA ReplaceOrdered ==
  ASSUME NEW S \in SUBSET Pages, NEW nx \in Links, NEW pv \in Links, OrderedIn(S, nx, pv),
         NEW elm \in S, NEW new \in Pages \ S, elm < new,
         \A q \in S : elm < q => new < q
  PROVE  OrderedIn((S \ {elm}) \cup {new},
                   [nx EXCEPT ![pv[elm]] = new, ![new] = nx[elm]],
                   [pv EXCEPT ![nx[elm]] = new, ![new] = pv[elm]])
<1> DEFINE T == S \ {elm}
           before == pv[elm]
           after == nx[elm]
           nx1 == [nx EXCEPT ![before] = after]
           pv1 == [pv EXCEPT ![after] = before]
<1>0. /\ Neighbours(S, nx, pv)
      /\ \A e \in S : e \in Int /\ e >= 0 /\ HEAD < e /\ e # HEAD /\ e \in Entry
      /\ \A e \in S \cup {HEAD} : e \in Int /\ HEAD <= e /\ e \in Entry
  BY NextIn, EntriesInt
<1>1. /\ before \in T \cup {HEAD} /\ after \in T \cup {HEAD} /\ before < elm
      /\ (after # HEAD => elm < after)
      /\ elm \in Int /\ before \in Int /\ after \in Int /\ new \in Int
      /\ before \in Entry /\ after \in Entry /\ new \in Entry
      /\ new # before /\ new # after
  <2>1. before \in S \cup {HEAD} /\ after \in S \cup {HEAD} /\ before < elm
        /\ (after # HEAD => elm < after)
    BY <1>0 DEF Neighbours
  <2>2. before \in Int /\ after \in Int /\ elm \in Int /\ elm > HEAD
        /\ elm \in Entry /\ before \in Entry /\ after \in Entry
    BY <1>0, <2>1
  <2>3. before # elm /\ after # elm
    BY <1>0, <2>1, <2>2
  <2> HIDE DEF before, after
  <2> QED BY <2>1, <2>2, <2>3, NPageNat
<1>2. OrderedIn(T, nx1, pv1)
  BY DeleteOrdered
<1>3. nx1 \in Links /\ pv1 \in Links /\ nx1[before] = after
  BY <1>1 DEF Links
<1>4. before < new /\ (after = HEAD \/ new < after)
  BY <1>1
<1>5. OrderedIn(T \cup {new}, [nx1 EXCEPT ![before] = new, ![new] = after],
                              [pv1 EXCEPT ![after] = new, ![new] = before])
  <2> HIDE DEF nx1, pv1, before, after
  <2>1. T \in SUBSET Pages /\ new \in Pages \ T
    OBVIOUS
  <2> HIDE DEF T
  <2> QED BY <1>1, <1>2, <1>3, <1>4, <2>1, InsertOrdered
<1>6. /\ [nx1 EXCEPT ![before] = new, ![new] = after] = [nx EXCEPT ![before] = new, ![new] = after]
      /\ [pv1 EXCEPT ![after] = new, ![new] = before] = [pv EXCEPT ![after] = new, ![new] = before]
  BY <1>1 DEF Links
<1> QED BY <1>5, <1>6

-----------------------------------------------------------------------------
(* Counting the pages that are held.                                        *)
LEMMA PagesCount == IsFiniteSet(Pages) /\ Cardinality(Pages) = NPage
<1>1. NPage \in Nat /\ NPage - 1 \in Int /\ 0 \in Int /\ 0 <= NPage - 1
  BY NPageNat
<1>2. /\ IsFiniteSet(0 .. (NPage - 1))
      /\ Cardinality(0 .. (NPage - 1)) = IF 0 > NPage - 1 THEN 0 ELSE (NPage - 1) - 0 + 1
  BY <1>1, FS_Interval
<1> QED BY <1>1, <1>2 DEF Pages

(* A set of pages is finite, and its size at most NPage.                    *)
LEMMA PagesFinite ==
  ASSUME NEW U \in SUBSET Pages
  PROVE  IsFiniteSet(U) /\ Cardinality(U) \in 0 .. NPage
<1>1. IsFiniteSet(U) /\ Cardinality(U) <= NPage
  BY PagesCount, FS_Subset
<1> QED BY <1>1, NPageNat, FS_CardinalityType

(* A block of k pages has k pages.                                          *)
LEMMA BlockSize ==
  ASSUME NEW b \in Pages, NEW k \in Nat, b + k <= NPage
  PROVE  Block(b, k) \in SUBSET Pages /\ IsFiniteSet(Block(b, k)) /\ Cardinality(Block(b, k)) = k
<1>1. b \in Nat /\ NPage \in Nat /\ b \in Int /\ b + k - 1 \in Int
  BY NPageNat
<1>2. Block(b, k) = b .. (b + k - 1)
  BY DEF Block
<1>3. IsFiniteSet(Block(b, k)) /\ Cardinality(Block(b, k)) = k
  <2>1. Cardinality(b .. (b + k - 1)) = IF b > b + k - 1 THEN 0 ELSE (b + k - 1) - b + 1
    BY <1>1, FS_Interval
  <2>2. IsFiniteSet(b .. (b + k - 1))
    BY <1>1, FS_Interval
  <2> QED BY <1>1, <1>2, <2>1, <2>2
<1>4. Block(b, k) \subseteq Pages
  BY <1>1, <1>2 DEF Pages
<1> QED BY <1>3, <1>4

(* What a caller is given is no longer free,                                *)
LEMMA HoldBlock ==
  ASSUME NEW U \in SUBSET Pages, NEW b \in Pages, NEW k \in Nat, b + k <= NPage,
         Block(b, k) \cap U = {}
  PROVE  /\ U \cup Block(b, k) \in SUBSET Pages
         /\ Cardinality(U \cup Block(b, k)) = Cardinality(U) + k
<1>1. /\ Block(b, k) \in SUBSET Pages /\ IsFiniteSet(Block(b, k)) /\ Cardinality(Block(b, k)) = k
      /\ IsFiniteSet(U) /\ Cardinality(U) \in 0 .. NPage
  BY BlockSize, PagesFinite
<1>2. U \cap Block(b, k) = {} /\ Cardinality({}) = 0
  BY FS_EmptySet
<1> HIDE DEF Block
<1>3. Cardinality(U \cup Block(b, k))
        = Cardinality(U) + Cardinality(Block(b, k)) - Cardinality(U \cap Block(b, k))
  BY <1>1, FS_Union
<1>4. Cardinality(U \cap Block(b, k)) = 0
  BY <1>2
<1>5. Cardinality(U) \in Int
  BY <1>1, NPageNat
<1> QED BY <1>1, <1>3, <1>4, <1>5

(* and what he gives back is no longer held.                                *)
LEMMA LeaveBlock ==
  ASSUME NEW U \in SUBSET Pages, NEW b \in Pages, NEW k \in Nat, b + k <= NPage,
         Block(b, k) \subseteq U
  PROVE  /\ U \ Block(b, k) \in SUBSET Pages
         /\ Cardinality(U \ Block(b, k)) = Cardinality(U) - k
<1>1. /\ IsFiniteSet(Block(b, k)) /\ Cardinality(Block(b, k)) = k
      /\ IsFiniteSet(U) /\ Cardinality(U) \in 0 .. NPage
  BY BlockSize, PagesFinite
<1>2. U \cap Block(b, k) = Block(b, k)
  OBVIOUS
<1> HIDE DEF Block
<1>3. Cardinality(U \ Block(b, k)) = Cardinality(U) - Cardinality(U \cap Block(b, k))
  BY <1>1, FS_Difference
<1> QED BY <1>1, <1>2, <1>3

(* A free block is made of pages nobody holds, and is not larger than all   *)
(* that is free.                                                            *)
LEMMA FreeBlock ==
  ASSUME TypeOK, BlocksApart, NEW p \in head
  PROVE  /\ p \in Pages /\ property[p] \in 1 .. NPage /\ p + property[p] <= NPage
         /\ Block(p, property[p]) \cap used = {}
         /\ property[p] <= nr_free
<1>1. p \in Pages /\ property[p] \in 1 .. NPage /\ p + property[p] <= NPage
  BY NPageNat DEF TypeOK, BlocksApart
<1>2. p \in Nat /\ property[p] \in Nat /\ NPage \in Nat /\ used \in SUBSET Pages
  BY <1>1, NPageNat DEF TypeOK
<1>3. \A x \in Pages : InBlock(p, x) => x \notin used
  BY DEF BlocksApart
<1>4. \A x \in Block(p, property[p]) : x \in Pages /\ InBlock(p, x)
  BY <1>1, <1>2 DEF Block, InBlock, Pages
<1>5. Block(p, property[p]) \cap used = {}
  BY <1>3, <1>4
<1>6. /\ used \cup Block(p, property[p]) \in SUBSET Pages
      /\ Cardinality(used \cup Block(p, property[p])) = Cardinality(used) + property[p]
  BY <1>1, <1>2, <1>5, HoldBlock
<1>7. Cardinality(used \cup Block(p, property[p])) \in 0 .. NPage /\ Cardinality(used) \in 0 .. NPage
  BY <1>2, <1>6, PagesFinite
<1>8. nr_free = NPage - Cardinality(used)
  BY DEF BlocksApart
<1> QED BY <1>1, <1>2, <1>5, <1>6, <1>7, <1>8

-----------------------------------------------------------------------------
(* The inductive invariant.                                                 *)
IInv == TypeOK /\ CallInv

(* What every step uses of the list.                                        *)
LEMMA ListedFacts ==
  ASSUME IInv
  PROVE  /\ OnList \in SUBSET Pages /\ OrderedIn(OnList, next, prev)
         /\ Neighbours(OnList, next, prev)
         /\ head \in SUBSET Pages
         /\ \A e \in head : e \in Int /\ e >= 0 /\ HEAD < e /\ e # HEAD /\ e \in Entry /\ e < NPage
         /\ HEAD \in Int /\ HEAD \notin head /\ NIL \notin Entry
         /\ next \in Links /\ prev \in Links
<1>1. OnList \in SUBSET Pages /\ head \in SUBSET Pages
  BY DEF IInv, TypeOK, OnList
<1>2. OrderedIn(OnList, next, prev)
  BY ListedOrdered DEF IInv, CallInv
<1> QED BY <1>1, <1>2, NextIn, EntriesInt, NPageNat DEF IInv, TypeOK, Links

(* default_init and default_init_memmap.                                    *)
LEMMA InitInv == Init => IInv
<1> SUFFICES ASSUME Init PROVE IInv
  OBVIOUS
<1> USE NPageNat
<1>1. TypeOK
  BY DEF Init, TypeOK
<1>2. OnList = {0} /\ next[HEAD] = 0 /\ next[0] = HEAD /\ prev[HEAD] = 0 /\ prev[0] = HEAD
  BY DEF Init, OnList
<1>3. ListOrdered
  BY <1>2 DEF ListOrdered, Follows
<1>4. BlocksApart
  <2>1. Cardinality({}) = 0
    BY FS_EmptySet
  <2>2. property[0] = NPage
    BY DEF Init
  <2>3. \A x \in Pages : InBlock(0, x)
    BY <2>2 DEF InBlock
  <2> QED BY <2>1, <2>2, <2>3 DEF Init, BlocksApart
<1>5. MergedButBase
  BY DEF Init, MergedButBase
<1>6. CallState
  BY DEF Init, CallState
<1> QED BY <1>1, <1>3, <1>4, <1>5, <1>6 DEF IInv, CallInv

(* A step that leaves the list and the blocks as they are.                  *)
LEMMA SameBlocks ==
  ASSUME BlocksApart, UNCHANGED <<property, head, nr_free, used>>
  PROVE  BlocksApart'
BY DEF BlocksApart, InBlock

(* A step that leaves the links and the listed blocks alone leaves the order*)
(* alone.                                                                   *)
LEMMA SameList ==
  ASSUME ListOrdered, UNCHANGED links, OnList' = OnList
  PROVE  ListOrdered'
BY DEF ListOrdered, Follows, links

(* alloc_pages begins its search at the lowest block.                       *)
LEMMA AllocPagesInv ==
  ASSUME IInv, NEW k \in 1 .. NPage, alloc_pages(k), UNCHANGED pmm_manager
  PROVE  IInv'
<1> USE ListedFacts, NPageNat
<1>1. pc = "idle" /\ pc' = "search" /\ n' = k /\ le' = next[HEAD] /\ page' = NIL
      /\ min_size' = nr_free + 1 /\ UNCHANGED <<links, property, head, nr_free, used, base>>
  BY DEF alloc_pages
<1>2. OnList = head /\ OnList' = head
  BY <1>1 DEF OnList
<1>3. next[HEAD] \in head \cup {HEAD} /\ \A q \in head : next[HEAD] # HEAD /\ next[HEAD] <= q
  BY <1>2 DEF Neighbours
<1>4. TypeOK'
  BY <1>1, <1>3 DEF IInv, TypeOK, links, Entry
<1>5. ListOrdered' /\ BlocksApart'
  BY <1>1, <1>2, SameBlocks, SameList DEF IInv, CallInv
<1>6. MergedButBase'
  BY <1>1 DEF IInv, CallInv, MergedButBase
<1>7. \A q \in head' : ~ Passed(q)'
  BY <1>1, <1>3 DEF Passed
<1>8. CallState'
  BY <1>1, <1>3, <1>7 DEF CallState, BestFit
<1> QED BY <1>4, <1>5, <1>6, <1>8 DEF IInv, CallInv

(* One block is looked at: first fit,                                       *)
LEMMA FirstFitInv ==
  ASSUME IInv, pc = "search", le # HEAD, ~ BestFit, first_fit,
         UNCHANGED <<pmm_manager, links, property, head, nr_free, used, base, n>>
  PROVE  IInv'
<1> USE ListedFacts, NPageNat
<1>1. OnList = head /\ le \in head /\ n > 0 /\ page = NIL
      /\ \A q \in head : Passed(q) => TooSmall(q)
  BY DEF IInv, CallInv, CallState, OnList, BestFit
<1>2. n \in 0 .. NPage /\ \A p \in head : property[p] \in 0 .. NPage
  BY DEF IInv, TypeOK
<1>3. BlocksApart' 
  BY SameBlocks DEF IInv, CallInv
<1>4. CASE property[le] >= n
  <2>1. page' = le /\ pc' = "take" /\ UNCHANGED <<le, min_size>>
    BY <1>4 DEF first_fit
  <2>2. OnList' = OnList
    BY <1>1, <2>1 DEF OnList
  <2>3. TypeOK'
    BY <1>1, <2>1 DEF IInv, TypeOK, links
  <2>4. ListOrdered' /\ MergedButBase'
    BY <2>1, <2>2, SameList DEF IInv, CallInv, MergedButBase
  <2>5. \A q \in head : TooSmall(q) \/ le <= q
    BY <1>1 DEF Passed
  <2>6. ~ TooSmall(le)
    BY <1>1, <1>2, <1>4 DEF TooSmall
  <2>7. CallState'
    BY <1>1, <2>1, <2>5, <2>6 DEF CallState, TooSmall, BestFit
  <2> QED BY <1>3, <2>3, <2>4, <2>7 DEF IInv, CallInv
<1>5. CASE ~ (property[le] >= n)
  <2>1. le' = next[le] /\ UNCHANGED <<pc, page, min_size>>
    BY <1>5 DEF first_fit
  <2>2. OnList' = OnList
    BY <1>1, <2>1 DEF OnList
  <2>3. next[le] \in head \cup {HEAD} /\ \A q \in head : le < q => next[le] # HEAD /\ next[le] <= q
    BY <1>1 DEF Neighbours
  <2>4. TypeOK'
    BY <1>1, <2>1, <2>3 DEF IInv, TypeOK, links, Entry
  <2>5. ListOrdered' /\ MergedButBase'
    BY <2>1, <2>2, SameList DEF IInv, CallInv, MergedButBase
  <2>6. TooSmall(le)
    BY <1>1, <1>2, <1>5 DEF TooSmall
  <2>7. ASSUME NEW q \in head, Passed(q)'
        PROVE  TooSmall(q)
    <3>1. next[le] = HEAD \/ q < next[le]
      BY <2>1, <2>7 DEF Passed
    <3>2. ~ (le < q)
      BY <1>1, <2>3, <3>1
    <3>3. q < le \/ q = le
      BY <1>1, <3>2
    <3> QED BY <1>1, <2>6, <3>3 DEF Passed
  <2>8. CallState'
    BY <1>1, <2>1, <2>3, <2>7 DEF CallState, TooSmall, BestFit
  <2> QED BY <1>3, <2>4, <2>5, <2>8 DEF IInv, CallInv
<1> QED BY <1>4, <1>5

(* and best fit, whose choice so far is the best of those passed.           *)
LEMMA BestFitInv ==
  ASSUME IInv, pc = "search", le # HEAD, BestFit, best_fit,
         UNCHANGED <<pmm_manager, links, property, head, nr_free, used, base, n>>
  PROVE  IInv'
<1> USE ListedFacts, NPageNat
<1>1. /\ OnList = head /\ le \in head /\ n > 0
      /\ page = NIL => min_size = nr_free + 1 /\ \A q \in head : Passed(q) => TooSmall(q)
      /\ page # NIL =>
              /\ page \in head /\ ~ TooSmall(page) /\ min_size = property[page]
              /\ Passed(page)
              /\ \A q \in head : Passed(q) => TooSmall(q) \/ Better(page, q)
  BY DEF IInv, CallInv, CallState, OnList
<1>2. n \in 0 .. NPage /\ \A p \in head : property[p] \in 0 .. NPage
  BY DEF IInv, TypeOK
<1>3. property[le] <= nr_free /\ nr_free \in 0 .. NPage
  BY <1>1, FreeBlock DEF IInv, CallInv, TypeOK
<1>4. UNCHANGED pc /\ le' = next[le]
  BY DEF best_fit
<1>5. OnList' = OnList
  BY <1>1, <1>4 DEF OnList
<1>6. ListOrdered' /\ MergedButBase' /\ BlocksApart'
  BY <1>4, <1>5, SameList, SameBlocks DEF IInv, CallInv, MergedButBase
<1>7. next[le] \in head \cup {HEAD} /\ \A q \in head : le < q => next[le] # HEAD /\ next[le] <= q
  BY <1>1 DEF Neighbours
<1>8. next[le] # HEAD => le < next[le]
  BY <1>1 DEF Neighbours
<1>9. \A q \in head : Passed(q)' => Passed(q) \/ q = le
  <2> SUFFICES ASSUME NEW q \in head, Passed(q)' PROVE q < le \/ q = le
    BY DEF Passed
  <2>1. next[le] = HEAD \/ q < next[le]
    BY <1>4 DEF Passed
  <2>2. ~ (le < q)
    BY <1>1, <1>7, <2>1
  <2> QED BY <1>1, <2>2
<1>10. \A q \in head : Passed(q) \/ q = le => Passed(q)'
  <2> SUFFICES ASSUME NEW q \in head, q < le \/ q = le PROVE Passed(q)'
    BY DEF Passed
  <2>1. next[le] = HEAD \/ q < next[le]
    BY <1>1, <1>7, <1>8
  <2> QED BY <1>4, <2>1 DEF Passed
<1>11. /\ \A q \in head : TooSmall(q)' <=> TooSmall(q)
       /\ \A p, q \in head : Better(p, q)' <=> Better(p, q)
       /\ BestFit'
  BY DEF TooSmall, Better, BestFit
<1>12. CASE property[le] >= n /\ property[le] < min_size
  <2>1. page' = le /\ min_size' = property[le]
    BY <1>1, <1>12 DEF best_fit
  <2>2. TypeOK'
    BY <1>1, <1>2, <1>4, <1>7, <2>1 DEF IInv, TypeOK, links, Entry
  <2>3. ~ TooSmall(le)
    BY <1>1, <1>2, <1>12 DEF TooSmall
  <2>4. ASSUME NEW q \in head, Passed(q)' PROVE TooSmall(q) \/ Better(le, q)
    <3>1. CASE q = le
      BY <1>1, <3>1 DEF Better
    <3>2. CASE q # le /\ page = NIL
      BY <1>1, <1>9, <2>4, <3>2
    <3>3. CASE q # le /\ page # NIL
      <4>1. TooSmall(q) \/ Better(page, q)
        BY <1>1, <1>9, <2>4, <3>3
      <4>2. property[le] < property[page]
        BY <1>1, <1>12, <3>3
      <4>3. Better(page, q) => property[le] < property[q]
        BY <1>1, <1>2, <3>3, <4>2 DEF Better
      <4> QED BY <4>1, <4>3 DEF Better
    <3> QED BY <3>1, <3>2, <3>3
  <2>5. CallState'
    <3>1. pc' = "search" /\ page' # NIL
      BY <1>1, <1>4, <2>1
    <3>2. n' > 0 /\ le' \in head' \cup {HEAD} /\ page' \in head' /\ ~ TooSmall(page)'
          /\ min_size' = property'[page'] /\ Passed(page)'
      BY <1>1, <1>4, <1>7, <1>10, <1>11, <2>1, <2>3 DEF TooSmall, Passed
    <3>3. \A q \in head' : Passed(q)' => TooSmall(q)' \/ Better(page, q)'
      BY <1>11, <2>1, <2>4 DEF Better
    <3> QED BY <1>11, <3>1, <3>2, <3>3 DEF CallState
  <2> QED BY <1>6, <2>2, <2>5 DEF IInv, CallInv
<1>13. CASE ~ (property[le] >= n /\ property[le] < min_size)
  <2>1. UNCHANGED <<page, min_size>>
    BY <1>1, <1>13 DEF best_fit
  <2>2. TypeOK'
    BY <1>1, <1>4, <1>7, <2>1 DEF IInv, TypeOK, links, Entry
  <2>3. TooSmall(le) \/ (page # NIL /\ Better(page, le))
    <3>1. CASE property[le] < n
      BY <3>1 DEF TooSmall
    <3>2. CASE ~ (property[le] < n)
      <4>1. property[le] >= n /\ ~ (property[le] < min_size)
        BY <1>1, <1>2, <1>13, <3>2
      <4>2. page # NIL
        <5>1. property[le] \in Int /\ nr_free \in Int
          BY <1>1, <1>2, <1>3
        <5>2. property[le] < nr_free + 1
          BY <1>3, <5>1
        <5> QED BY <1>1, <4>1, <5>2
      <4>3. property[page] <= property[le] /\ page < le
        BY <1>1, <1>2, <4>1, <4>2 DEF Passed
      <4> QED BY <1>1, <1>2, <4>2, <4>3 DEF Better
    <3> QED BY <3>1, <3>2
  <2>4. CallState'
    <3>1. pc' = "search" /\ n' > 0 /\ le' \in head' \cup {HEAD}
      BY <1>1, <1>4, <1>7
    <3>2. page' = NIL => min_size' = nr_free' + 1 /\ \A q \in head' : Passed(q)' => TooSmall(q)'
      BY <1>1, <1>9, <1>11, <2>1, <2>3
    <3>3. page' # NIL => page' \in head' /\ ~ TooSmall(page)' /\ min_size' = property'[page']
                         /\ Passed(page)'
      BY <1>1, <1>10, <1>11, <2>1 DEF TooSmall, Passed
    <3>4. page' # NIL => \A q \in head' : Passed(q)' => TooSmall(q)' \/ Better(page, q)'
      BY <1>1, <1>9, <1>11, <2>1, <2>3 DEF Better
    <3> QED BY <1>11, <3>1, <3>2, <3>3, <3>4 DEF CallState
  <2> QED BY <1>6, <2>2, <2>4 DEF IInv, CallInv
<1> QED BY <1>12, <1>13

(* An iteration of the search, or its end.                                  *)
LEMMA SearchInv ==
  ASSUME IInv, search, UNCHANGED pmm_manager
  PROVE  IInv'
<1> USE ListedFacts, NPageNat
<1>1. pc = "search" /\ UNCHANGED <<links, property, head, nr_free, used>> /\ OnList = head
  BY DEF search, OnList
<1>2. CASE le # HEAD /\ (IF BestFit THEN best_fit ELSE first_fit) /\ UNCHANGED <<base, n>>
  <2>1. CASE BestFit
    BY <1>1, <1>2, <2>1, BestFitInv
  <2>2. CASE ~ BestFit
    BY <1>1, <1>2, <2>2, FirstFitInv
  <2> QED BY <2>1, <2>2
<1>3. CASE le = HEAD /\ page = NIL /\ Return
  <2>1. pc' = "idle" /\ OnList' = OnList
    BY <1>1, <1>3 DEF Return, OnList
  <2>2. TypeOK'
    BY <1>1, <1>3 DEF IInv, TypeOK, Return, links, Entry
  <2>3. ListOrdered' /\ BlocksApart' /\ MergedButBase'
    BY <1>1, <2>1, SameList, SameBlocks DEF IInv, CallInv, MergedButBase
  <2>4. CallState'
    BY <2>1 DEF CallState
  <2> QED BY <2>2, <2>3, <2>4 DEF IInv, CallInv
<1>4. CASE le = HEAD /\ page # NIL /\ pc' = "take" /\ UNCHANGED <<locals, le>>
  <2>1. OnList' = OnList
    BY <1>1, <1>4 DEF OnList
  <2>2. TypeOK'
    BY <1>1, <1>4 DEF IInv, TypeOK, locals, links
  <2>3. ListOrdered' /\ BlocksApart' /\ MergedButBase'
    BY <1>1, <1>4, <2>1, SameList, SameBlocks DEF IInv, CallInv, MergedButBase
  <2>4. BestFit /\ n > 0 /\ page \in head /\ ~ TooSmall(page)
        /\ \A q \in head : TooSmall(q) \/ Better(page, q)
    BY <1>1, <1>4 DEF IInv, CallInv, CallState, Passed
  <2>5. CallState'
    BY <1>1, <1>4, <2>4 DEF CallState, TooSmall, Better, BestFit, locals
  <2> QED BY <2>2, <2>3, <2>5 DEF IInv, CallInv
<1> QED BY <1>1, <1>2, <1>3, <1>4 DEF search

-----------------------------------------------------------------------------
(* Two blocks do not overlap.                                               *)
LEMMA BlocksAre ==
  ASSUME IInv, NEW p \in head
  PROVE  /\ p \in Int /\ property[p] \in Int /\ 0 < property[p] /\ p + property[p] <= NPage
         /\ \A q \in head : q # p => q + property[q] <= p \/ p + property[p] <= q
BY ListedFacts, FreeBlock, NPageNat DEF IInv, CallInv, BlocksApart

(* The count when a block is given out,                                     *)
LEMMA TakeFacts ==
  ASSUME IInv, take
  PROVE  /\ pc = "take" /\ pc' = "idle" /\ OnList = head /\ OnList' = head'
         /\ n \in 1 .. NPage /\ page \in head /\ n <= property[page]
         /\ used' = used \cup Block(page, n) /\ nr_free' = nr_free - n
         /\ used' \in SUBSET Pages /\ nr_free' \in 0 .. NPage
         /\ nr_free' = NPage - Cardinality(used')
         /\ \A x \in Pages : x \notin used' <=> x \notin used /\ ~ (page <= x /\ x < page + n)
<1>1. /\ pc = "take" /\ pc' = "idle" /\ page \in head /\ n > 0 /\ n <= property[page]
      /\ n \in 0 .. NPage /\ nr_free' = nr_free - n /\ used' = used \cup Block(page, n)
  <2>1. n \in 0 .. NPage /\ \A p \in head : property[p] \in 0 .. NPage
    BY ListedFacts DEF IInv, TypeOK
  <2>2. pc = "take" /\ pc' = "idle" /\ nr_free' = nr_free - n /\ used' = used \cup Block(page, n)
    BY DEF take, Return
  <2>3. n > 0 /\ page \in head /\ ~ TooSmall(page)
    BY <2>2 DEF IInv, CallInv, CallState
  <2> QED BY <2>1, <2>2, <2>3, NPageNat DEF TooSmall
<1>2. OnList = head /\ OnList' = head'
  BY <1>1 DEF OnList
<1>3. /\ page \in Pages /\ page \in Int /\ property[page] \in Int /\ page + property[page] <= NPage
      /\ Block(page, property[page]) \cap used = {}
  <2>1. TypeOK /\ BlocksApart
    BY DEF IInv, CallInv
  <2> QED BY <1>1, <2>1, FreeBlock, BlocksAre
<1>4. NPage \in Nat /\ n \in Nat /\ page + n <= NPage /\ \A x \in Pages : x \in Int
  BY <1>1, <1>3, NPageNat
<1>5. Block(page, n) \subseteq Block(page, property[page])
  BY <1>1, <1>3, <1>4 DEF Block
<1>6. used \in SUBSET Pages /\ nr_free = NPage - Cardinality(used)
  BY DEF IInv, CallInv, BlocksApart, TypeOK
<1>7. used' \in SUBSET Pages /\ Cardinality(used') = Cardinality(used) + n
  BY <1>1, <1>3, <1>4, <1>5, <1>6, HoldBlock
<1>8. Cardinality(used') \in 0 .. NPage /\ Cardinality(used) \in 0 .. NPage
  BY <1>6, <1>7, PagesFinite
<1>9. nr_free' \in 0 .. NPage /\ nr_free' = NPage - Cardinality(used')
  BY <1>1, <1>4, <1>6, <1>7, <1>8
<1>10. \A x \in Pages : x \in Block(page, n) <=> page <= x /\ x < page + n
  BY <1>3, <1>4 DEF Block
<1> QED BY <1>1, <1>2, <1>4, <1>7, <1>9, <1>10

(* and the list: the rest of the block takes its place, if there is a rest. *)
LEMMA TakeInv ==
  ASSUME IInv, take, UNCHANGED pmm_manager
  PROVE  IInv'
<1> USE ListedFacts, NPageNat
<1> DEFINE rest == page + n
<1>1. /\ pc = "take" /\ pc' = "idle" /\ OnList = head /\ OnList' = head'
      /\ n \in 1 .. NPage /\ page \in head /\ n <= property[page]
      /\ used' \in SUBSET Pages /\ nr_free' \in 0 .. NPage
      /\ nr_free' = NPage - Cardinality(used')
      /\ \A x \in Pages : x \notin used' <=> x \notin used /\ ~ (page <= x /\ x < page + n)
  BY TakeFacts
<1>2. /\ page \in Int /\ property[page] \in Int /\ page + property[page] <= NPage /\ 0 <= page
      /\ \A q \in head : q # page => q + property[q] <= page \/ page + property[page] <= q
  BY <1>1, BlocksAre
<1>3. \A q \in head : q \in Int /\ property[q] \in Int /\ 0 < property[q] /\ q + property[q] <= NPage
  BY BlocksAre
<1>4. \A p, q \in head : (p < q => p + property[p] <= q) /\ p + property[p] # q
  BY <1>1 DEF IInv, CallInv, BlocksApart, MergedButBase
<1>5. \A x \in Pages : x \in Int /\ (x \notin used <=> \E p \in head : p <= x /\ x < p + property[p])
  BY DEF IInv, CallInv, BlocksApart, InBlock
<1>6. CallState'
  BY <1>1 DEF CallState
<1>7. CASE property[page] > n
  <2>1. /\ next' = [next EXCEPT ![prev[page]] = rest, ![rest] = next[page]]
        /\ prev' = [prev EXCEPT ![next[page]] = rest, ![rest] = prev[page]]
        /\ property' = [property EXCEPT ![rest] = property[page] - n]
        /\ head' = (head \cup {rest}) \ {page}
    BY <1>7 DEF take
  <2>2. rest \in Int /\ page < rest /\ rest < page + property[page] /\ rest \in Pages
    BY <1>1, <1>2, <1>7
  <2>3. rest \notin head /\ \A q \in head : page < q => rest < q
    BY <1>2, <1>3, <1>4, <2>2, <1>1
  <2>4. head' = (head \ {page}) \cup {rest} /\ head' \in SUBSET Pages
    BY <2>1, <2>2
  <2>5. ListOrdered'
    <3> HIDE DEF rest
    <3>1. /\ head \in SUBSET Pages /\ next \in Links /\ prev \in Links
          /\ OrderedIn(head, next, prev) /\ page \in head /\ rest \in Pages \ head
      BY <1>1, <2>2, <2>3
    <3>2. OrderedIn((head \ {page}) \cup {rest},
                    [next EXCEPT ![prev[page]] = rest, ![rest] = next[page]],
                    [prev EXCEPT ![next[page]] = rest, ![rest] = prev[page]])
      BY <2>2, <2>3, <3>1, ReplaceOrdered
    <3>3. OrderedIn(head', next', prev')
      BY <2>1, <2>4, <3>2
    <3> QED BY <1>1, <3>3 DEF ListOrdered, OrderedIn, Follows, FollowsIn
  <2>6. /\ property'[rest] = property[page] - n
        /\ \A q \in head \ {page} : property'[q] = property[q]
    BY <2>1, <2>2, <2>3 DEF IInv, TypeOK
  <2>7. TypeOK'
    <3>1. /\ rest \in Entry /\ next[page] \in Entry /\ prev[page] \in Entry
          /\ property[page] - n \in 0 .. NPage
      <4>1. rest \in Entry
        BY <2>2
      <4>2. page \in head \cup {HEAD} /\ head \cup {HEAD} \subseteq Entry
        BY <1>1 DEF IInv, TypeOK
      <4>3. next[page] \in Entry /\ prev[page] \in Entry
        BY <1>1, <4>2 DEF Neighbours
      <4>4. property[page] - n \in 0 .. NPage
        BY <1>1, <1>2, <1>7
      <4> QED BY <4>1, <4>3, <4>4
    <3>2. /\ next' \in [Entry -> Entry \cup {NIL}] /\ prev' \in [Entry -> Entry \cup {NIL}]
          /\ property' \in [Pages -> 0 .. NPage]
      BY <2>1, <3>1 DEF IInv, TypeOK
    <3> QED BY <1>1, <2>4, <3>2 DEF IInv, TypeOK, take, Return
  <2> HIDE DEF rest
  <2>8. ASSUME NEW p \in head'
        PROVE  /\ 0 < property'[p] /\ p + property'[p] <= NPage /\ p \in Int /\ property'[p] \in Int
               /\ \A q \in head' : p < q => p + property'[p] < q
    <3>1. CASE p = rest
      <4>1. property'[p] = property[page] - n /\ p + property'[p] = page + property[page]
        BY <1>1, <1>2, <2>6, <3>1 DEF rest
      <4>2. \A q \in head' : p < q => page + property[page] < q
        BY <1>2, <1>3, <1>4, <1>1, <2>2, <2>4, <3>1
      <4> QED BY <1>1, <1>2, <1>7, <2>2, <3>1, <4>1, <4>2
    <3>2. CASE p # rest
      <4>1. p \in head /\ p # page /\ property'[p] = property[p]
        BY <2>4, <2>6, <3>2
      <4>2. \A q \in head : p < q => p + property[p] < q
        BY <1>3, <1>4, <4>1
      <4>3. p < rest => p + property[p] < rest
        BY <1>2, <1>3, <2>2, <4>1
      <4> QED BY <1>3, <2>4, <4>1, <4>2, <4>3
    <3> QED BY <3>1, <3>2
  <2>9. ASSUME NEW x \in Pages
        PROVE  x \notin used' <=> \E p \in head' : p <= x /\ x < p + property'[p]
    <3>0. rest + property'[rest] = page + property[page]
      BY <1>1, <1>2, <2>6 DEF rest
    <3>1. ASSUME x \notin used' PROVE \E p \in head' : p <= x /\ x < p + property'[p]
      <4>1. x \notin used /\ ~ (page <= x /\ x < rest)
        BY <1>1, <3>1 DEF rest
      <4>2. PICK p \in head : p <= x /\ x < p + property[p]
        BY <1>5, <4>1
      <4>3. CASE p = page
        BY <1>5, <2>2, <2>4, <3>0, <4>1, <4>2, <4>3
      <4>4. CASE p # page
        BY <2>4, <2>6, <4>2, <4>4
      <4> QED BY <4>3, <4>4
    <3>2. ASSUME NEW p \in head', p <= x, x < p + property'[p] PROVE x \notin used'
      <4>1. CASE p = rest
        <5>1. page <= x /\ x < page + property[page] /\ ~ (x < rest)
          BY <1>2, <1>5, <2>2, <3>0, <3>2, <4>1
        <5> QED BY <1>1, <1>5, <5>1 DEF rest
      <4>2. CASE p # rest
        <5>1. p \in head /\ p # page /\ property'[p] = property[p]
          BY <2>4, <2>6, <4>2
        <5>2. x \notin used
          BY <1>5, <3>2, <5>1
        <5>3. ~ (page <= x /\ x < page + n)
          BY <1>1, <1>2, <1>3, <1>5, <3>2, <5>1
        <5> QED BY <1>1, <5>2, <5>3
      <4> QED BY <4>1, <4>2
    <3> QED BY <3>1, <3>2
  <2>10. BlocksApart'
    BY <1>1, <2>8, <2>9 DEF BlocksApart, InBlock
  <2>11. MergedButBase'
    <3>1. \A p, q \in head' : p + property'[p] # q
      BY <2>8
    <3> QED BY <3>1 DEF MergedButBase
  <2> QED BY <1>6, <2>5, <2>7, <2>10, <2>11 DEF IInv, CallInv
<1>8. CASE ~ (property[page] > n)
  <2>1. list_del(page) /\ head' = head \ {page} /\ UNCHANGED property /\ property[page] = n
    BY <1>1, <1>2, <1>8 DEF take
  <2>2. ListOrdered'
    <3>1. OrderedIn(head', next', prev')
      BY <1>1, <2>1, DeleteOrdered DEF list_del
    <3> QED BY <1>1, <3>1 DEF ListOrdered, OrderedIn, Follows, FollowsIn
  <2>3. TypeOK'
    <3>1. next[page] \in Entry /\ prev[page] \in Entry
      BY <1>1 DEF Neighbours, Entry
    <3>2. /\ next' \in [Entry -> Entry \cup {NIL}] /\ prev' \in [Entry -> Entry \cup {NIL}]
      BY <2>1, <3>1 DEF IInv, TypeOK, list_del
    <3> QED BY <1>1, <2>1, <3>2 DEF IInv, TypeOK, take, Return
  <2>4. ASSUME NEW x \in Pages
        PROVE  x \notin used' <=> \E p \in head' : p <= x /\ x < p + property'[p]
    <3>1. ASSUME x \notin used' PROVE \E p \in head' : p <= x /\ x < p + property'[p]
      <4>1. x \notin used /\ ~ (page <= x /\ x < page + property[page])
        BY <1>1, <2>1, <3>1
      <4>2. PICK p \in head : p <= x /\ x < p + property[p]
        BY <1>5, <4>1
      <4> QED BY <2>1, <4>1, <4>2
    <3>2. ASSUME NEW p \in head', p <= x, x < p + property'[p] PROVE x \notin used'
      <4>1. p \in head /\ p # page /\ property'[p] = property[p]
        BY <2>1
      <4>2. x \notin used
        BY <1>5, <3>2, <4>1
      <4>3. ~ (page <= x /\ x < page + n)
        BY <1>2, <1>3, <1>5, <2>1, <3>2, <4>1
      <4> QED BY <1>1, <4>2, <4>3
    <3> QED BY <3>1, <3>2
  <2>5. BlocksApart'
    BY <1>1, <1>3, <1>4, <2>1, <2>4 DEF BlocksApart, InBlock
  <2>6. MergedButBase'
    BY <1>4, <2>1 DEF MergedButBase
  <2> QED BY <1>6, <2>2, <2>3, <2>5, <2>6 DEF IInv, CallInv
<1> QED BY <1>7, <1>8

-----------------------------------------------------------------------------
(* The count when pages come back,                                          *)
LEMMA FreePagesFacts ==
  ASSUME IInv, NEW b \in Pages, NEW k \in 1 .. NPage - b, free_pages(b, k)
  PROVE  /\ pc = "idle" /\ OnList = head /\ b \notin head /\ b + k <= NPage /\ k \in Int
         /\ \A q \in head : q + property[q] <= b \/ b + k <= q
         /\ used' \in SUBSET Pages /\ nr_free' = NPage - Cardinality(used')
         /\ nr_free' \in 0 .. NPage
         /\ \A x \in Pages : x \notin used' <=> x \notin used \/ (b <= x /\ x < b + k)
<1> USE ListedFacts, NPageNat
<1>1. /\ pc = "idle" /\ Block(b, k) \subseteq used /\ used' = used \ Block(b, k)
      /\ nr_free' = nr_free + k /\ OnList = head
  BY DEF free_pages, OnList
<1>2. b \in Int /\ k \in Nat /\ k > 0 /\ b + k <= NPage /\ \A x \in Pages : x \in Int
  OBVIOUS
<1>3. \A x \in Int : x \in Block(b, k) <=> b <= x /\ x < b + k
  BY <1>2 DEF Block
<1>4. used \in SUBSET Pages /\ nr_free = NPage - Cardinality(used)
  BY DEF IInv, CallInv, BlocksApart, TypeOK
<1>5. used' \in SUBSET Pages /\ Cardinality(used') = Cardinality(used) - k
  BY <1>1, <1>2, <1>4, LeaveBlock
<1>6. Cardinality(used') \in 0 .. NPage /\ Cardinality(used) \in 0 .. NPage
  BY <1>4, <1>5, PagesFinite
<1>7. nr_free' = NPage - Cardinality(used') /\ nr_free' \in 0 .. NPage
  BY <1>1, <1>2, <1>4, <1>5, <1>6
<1>8. ASSUME NEW q \in head
      PROVE  q # b /\ (q + property[q] <= b \/ b + k <= q)
  <2>1. q \in Int /\ property[q] \in Int /\ 0 < property[q] /\ q \in Pages
    BY BlocksAre
  <2>2. \A x \in Pages : InBlock(q, x) => x \notin used
    BY DEF IInv, CallInv, BlocksApart
  <2>3. q \notin used
    BY <2>1, <2>2 DEF InBlock
  <2>4. ~ (b <= q /\ q < b + k)
    BY <1>1, <1>3, <2>1, <2>3
  <2>5. b \in used
    BY <1>1, <1>2, <1>3
  <2>6. ~ (q <= b /\ b < q + property[q])
    BY <2>2, <2>5 DEF InBlock
  <2> QED BY <1>2, <2>1, <2>4, <2>6
<1> QED BY <1>1, <1>2, <1>3, <1>5, <1>7, <1>8

(* and the block they make, flagged before it is on the list.               *)
LEMMA FreePagesInv ==
  ASSUME IInv, FreesBelow, NEW b \in Pages, NEW k \in 1 .. NPage - b, free_pages(b, k),
         UNCHANGED pmm_manager
  PROVE  IInv'
<1> USE ListedFacts, NPageNat
<1>1. /\ pc = "idle" /\ OnList = head /\ b \notin head /\ b + k <= NPage /\ k \in Int
      /\ \A q \in head : q + property[q] <= b \/ b + k <= q
      /\ used' \in SUBSET Pages /\ nr_free' = NPage - Cardinality(used')
      /\ nr_free' \in 0 .. NPage
      /\ \A x \in Pages : x \notin used' <=> x \notin used \/ (b <= x /\ x < b + k)
  BY FreePagesFacts
<1>2. /\ base' = b /\ n' = k /\ property' = [property EXCEPT ![b] = k] /\ head' = head \cup {b}
      /\ UNCHANGED <<page, min_size>>
  BY DEF free_pages
<1>3. property'[b] = k /\ \A q \in head : property'[q] = property[q] /\ q # b
  BY <1>1, <1>2 DEF IInv, TypeOK
<1>4. k > 0 /\ k \in 0 .. NPage /\ b \in Int
  OBVIOUS
<1>5. \A q \in head : q \in Int /\ property[q] \in Int /\ 0 < property[q] /\ q + property[q] <= NPage
  BY BlocksAre
<1>6. BlocksApart'
  <2>1. \A p \in head' : 0 < property'[p] /\ p + property'[p] <= NPage
    BY <1>1, <1>2, <1>3, <1>4, <1>5
  <2>2. ASSUME NEW p \in head', NEW q \in head', p < q
        PROVE  p + property'[p] <= q
    <3>1. CASE p # b /\ q # b
      BY <1>2, <1>3, <2>2, <3>1 DEF IInv, CallInv, BlocksApart
    <3>2. CASE p = b
      <4>1. q \in head /\ b < q
        BY <1>2, <1>4, <2>2, <3>2
      <4> QED BY <1>1, <1>3, <1>4, <1>5, <3>2, <4>1
    <3>3. CASE q = b
      <4>1. p \in head /\ p < b
        BY <1>2, <1>4, <2>2, <3>3
      <4> QED BY <1>1, <1>3, <1>4, <1>5, <3>3, <4>1
    <3> QED BY <3>1, <3>2, <3>3
  <2>3. ASSUME NEW x \in Pages
        PROVE  x \notin used' <=> \E p \in head' : p <= x /\ x < p + property'[p]
    <3>1. x \notin used <=> \E p \in head : p <= x /\ x < p + property[p]
      BY DEF IInv, CallInv, BlocksApart, InBlock
    <3> QED BY <1>1, <1>2, <1>3, <3>1
  <2> QED BY <1>1, <2>1, <2>2, <2>3 DEF BlocksApart, InBlock
<1>7. \A p, q \in head' : p + property'[p] = q => b \in {p, q}
  BY <1>1, <1>2, <1>3 DEF IInv, CallInv, MergedButBase
<1>8. CASE next[HEAD] = HEAD
  <2>1. list_add(HEAD, b) /\ pc' = "merge_prev" /\ UNCHANGED le
    BY <1>8 DEF free_pages
  <2>2. head = {} /\ OnList' = {b}
    <3>1. \A q \in head : next[HEAD] # HEAD
      BY <1>1 DEF Neighbours
    <3> QED BY <1>2, <1>8, <2>1, <3>1 DEF OnList
  <2>3. OrderedIn({b}, next', prev')
    <3>1. /\ {} \in SUBSET Pages /\ OrderedIn({}, next, prev) /\ b \in Pages \ {}
          /\ HEAD \in {} \cup {HEAD} /\ HEAD < b
      BY <1>1, <2>2
    <3>2. OrderedIn({} \cup {b}, [next EXCEPT ![HEAD] = b, ![b] = next[HEAD]],
                                 [prev EXCEPT ![next[HEAD]] = b, ![b] = HEAD])
      BY <1>8, <3>1, InsertOrdered
    <3> QED BY <2>1, <3>2 DEF list_add, list_insert
  <2>4. ListOrdered'
    BY <2>2, <2>3 DEF ListOrdered, OrderedIn, Follows, FollowsIn
  <2>5. TypeOK'
    <3>1. next' \in [Entry -> Entry \cup {NIL}] /\ prev' \in [Entry -> Entry \cup {NIL}]
      BY <1>8, <2>1 DEF list_add, list_insert, IInv, TypeOK
    <3> QED BY <1>1, <1>2, <1>4, <2>1, <3>1 DEF IInv, TypeOK
  <2>6. MergedButBase' /\ CallState'
    BY <1>2, <1>7, <2>1 DEF MergedButBase, CallState
  <2> QED BY <1>6, <2>4, <2>5, <2>6 DEF IInv, CallInv
<1>9. CASE next[HEAD] # HEAD
  <2>1. UNCHANGED links /\ pc' = "insert" /\ le' = next[HEAD] /\ FreesBelowFree(b)
    BY <1>9 DEF free_pages
  <2>2. OnList' = head
    BY <1>1, <1>2, <2>1 DEF OnList
  <2>3. next[HEAD] \in head
    BY <1>1, <1>9 DEF Neighbours
  <2>4. \E q \in head : b < q
    BY <1>4, <2>1, <2>3 DEF FreesBelowFree
  <2>5. \A q \in head : ~ (q < next[HEAD])
    BY <1>1, <2>3 DEF Neighbours
  <2>6. ListOrdered'
    BY <1>1, <2>1, <2>2, SameList DEF IInv, CallInv
  <2>7. TypeOK'
    BY <1>1, <1>2, <1>4, <2>1, <2>3 DEF IInv, TypeOK, links
  <2>8. MergedButBase'
    BY <1>2, <1>7, <2>1 DEF MergedButBase
  <2>9. CallState'
    BY <1>2, <2>1, <2>2, <2>3, <2>4, <2>5 DEF CallState
  <2> QED BY <1>6, <2>6, <2>7, <2>8, <2>9 DEF IInv, CallInv
<1> QED BY <1>8, <1>9

(* An iteration of the search for its place, which there is by FreesBelow.  *)
LEMMA InsertInv ==
  ASSUME IInv, insert, UNCHANGED pmm_manager
  PROVE  IInv'
<1> USE ListedFacts, NPageNat
<1>1. /\ pc = "insert" /\ UNCHANGED <<property, head, nr_free, used, base, n, page, min_size>>
      /\ OnList = head \ {base} /\ base \in head /\ le \in OnList
      /\ \A q \in OnList : q < le => q < base
  BY DEF insert, locals, OnList, IInv, CallInv, CallState
<1>2. PICK top \in OnList : base < top
  BY <1>1 DEF IInv, CallInv, CallState
<1>3. /\ base \in Int /\ le \in Int /\ top \in Int /\ le # base /\ le # HEAD
      /\ base \in Pages \ OnList
  BY <1>1, <1>2
<1>4. BlocksApart'
  BY <1>1, SameBlocks DEF IInv, CallInv
<1>5. CASE base < le
  <2>1. list_add_before(le, base) /\ pc' = "merge_prev" /\ UNCHANGED le
    BY <1>3, <1>5 DEF insert
  <2>2. OnList' = OnList \cup {base}
    BY <1>1, <2>1 DEF OnList
  <2>3. prev[le] \in OnList \cup {HEAD} /\ prev[le] < le /\ next[prev[le]] = le /\ prev[le] < base
    <3>1. prev[le] \in OnList \cup {HEAD} /\ prev[le] < le /\ next[prev[le]] = le
      BY <1>1 DEF Neighbours
    <3> QED BY <1>1, <3>1
  <2>4. OrderedIn(OnList \cup {base}, [next EXCEPT ![prev[le]] = base, ![base] = le],
                                      [prev EXCEPT ![le] = base, ![base] = prev[le]])
    BY <1>3, <1>5, <2>3, InsertOrdered
  <2>5. ListOrdered'
    <3>1. OrderedIn(OnList', next', prev')
      BY <2>1, <2>2, <2>4 DEF list_add_before, list_insert
    <3> QED BY <3>1 DEF ListOrdered, OrderedIn, Follows, FollowsIn
  <2>6. TypeOK'
    <3>1. prev[le] \in Entry /\ le \in Entry /\ base \in Entry
      BY <1>1, <2>3
    <3>2. next' \in [Entry -> Entry \cup {NIL}] /\ prev' \in [Entry -> Entry \cup {NIL}]
      BY <2>1, <3>1 DEF list_add_before, list_insert, IInv, TypeOK
    <3> QED BY <1>1, <2>1, <3>2 DEF IInv, TypeOK
  <2>7. MergedButBase' /\ CallState'
    BY <1>1, <2>1 DEF IInv, CallInv, MergedButBase, CallState
  <2> QED BY <1>4, <2>5, <2>6, <2>7 DEF IInv, CallInv
<1>6. CASE ~ (base < le)
  <2>1. le < base /\ le < top
    BY <1>2, <1>3, <1>6
  <2>2. next[le] # HEAD /\ next[le] \in OnList /\ \A q \in OnList : le < q => next[le] <= q
    BY <1>1, <2>1 DEF Neighbours
  <2>3. le' = next[le] /\ UNCHANGED <<links, pc>>
    BY <1>3, <1>6, <2>2 DEF insert
  <2>4. OnList' = OnList
    BY <1>1, <2>3 DEF OnList
  <2>5. ListOrdered' /\ MergedButBase'
    BY <1>1, <2>3, <2>4, SameList DEF IInv, CallInv, MergedButBase
  <2>6. TypeOK'
    BY <1>1, <2>2, <2>3 DEF IInv, TypeOK, links, Entry
  <2>7. ASSUME NEW q \in OnList, q < next[le] PROVE q < base
    <3>1. q \in Int /\ next[le] \in Int
      BY <1>1, <2>2
    <3>2. ~ (le < q)
      BY <2>2, <2>7, <3>1
    <3>3. q <= le
      BY <1>3, <3>1, <3>2
    <3> QED BY <1>3, <2>1, <3>1, <3>3
  <2>8. CallState'
    BY <1>1, <1>2, <2>2, <2>3, <2>4, <2>7 DEF CallState
  <2> QED BY <1>4, <2>5, <2>6, <2>8 DEF IInv, CallInv
<1> QED BY <1>5, <1>6

(* Two neighbours on the list are merged: elm, whose block begins where that *)
(* of into ends, leaves the list.                                           *)
Merge(into, elm) ==
  /\ property' = [property EXCEPT ![into] = @ + property[elm]]
  /\ head' = head \ {elm}
  /\ list_del(elm)
  /\ UNCHANGED <<nr_free, used>>

(* Merging keeps the list and the pages it covers.                          *)
LEMMA MergeInv ==
  ASSUME IInv, OnList = head, OnList' = head', NEW into \in head, NEW elm \in head,
         into + property[into] = elm, Merge(into, elm),
         \A p, q \in head : p + property[p] = q => into \in {p, q} \/ elm \in {p, q}
  PROVE  /\ ListOrdered' /\ BlocksApart' /\ into \in head'
         /\ next' \in Links /\ prev' \in Links /\ property' \in [Pages -> 0 .. NPage]
         /\ head' \subseteq Pages
         /\ \A p, q \in head' : p + property'[p] = q => into \in {p, q}
         /\ \A p \in head' : p + property'[p] = into => p + property[p] = into
<1> USE ListedFacts, NPageNat
<1>1. /\ property' = [property EXCEPT ![into] = property[into] + property[elm]]
      /\ head' = head \ {elm} /\ list_del(elm) /\ UNCHANGED <<nr_free, used>>
  BY DEF Merge
<1>2. \A q \in head : q \in Int /\ property[q] \in Int /\ 0 < property[q] /\ q + property[q] <= NPage
  BY BlocksAre
<1>3. \A p, q \in head : p < q => p + property[p] <= q
  BY DEF IInv, CallInv, BlocksApart
<1>4. into < elm /\ into # elm /\ into \in head'
  BY <1>1, <1>2
<1>5. /\ into + property'[into] = elm + property[elm]
      /\ property'[into] \in 0 .. NPage /\ 0 < property'[into]
      /\ \A q \in head : q # into => property'[q] = property[q]
  <2>1. property'[into] = property[into] + property[elm] /\ \A q \in head : q # into => property'[q] = property[q]
    BY <1>1 DEF IInv, TypeOK
  <2> QED BY <1>2, <2>1
<1>6. ListOrdered'
  <2>1. OrderedIn(head', next', prev')
    BY <1>1, DeleteOrdered DEF list_del
  <2> QED BY <2>1 DEF ListOrdered, OrderedIn, Follows, FollowsIn
<1>7. next' \in Links /\ prev' \in Links
  <2>1. next[elm] \in Entry /\ prev[elm] \in Entry
    BY DEF Neighbours, Entry
  <2> QED BY <1>1, <2>1 DEF list_del, Links
<1>8. property' \in [Pages -> 0 .. NPage] /\ head' \subseteq Pages
  <2>1. property[into] + property[elm] \in 0 .. NPage
    BY <1>1, <1>5 DEF IInv, TypeOK
  <2> QED BY <1>1, <2>1 DEF IInv, TypeOK
<1>9. ASSUME NEW p \in head', NEW q \in head', p < q
      PROVE  p + property'[p] <= q
  <2>1. p \in head /\ q \in head /\ q # elm /\ p # elm
    BY <1>1
  <2>2. CASE p = into
    <3>1. elm <= q
      BY <1>3, <1>9, <2>1, <2>2
    <3>2. elm < q
      BY <1>2, <2>1, <3>1
    <3> QED BY <1>3, <1>5, <2>1, <2>2, <3>2
  <2>3. CASE p # into
    BY <1>3, <1>5, <1>9, <2>1, <2>3
  <2> QED BY <2>2, <2>3
<1>10. ASSUME NEW x \in Pages
       PROVE  x \notin used' <=> \E p \in head' : p <= x /\ x < p + property'[p]
  <2>1. x \notin used <=> \E p \in head : p <= x /\ x < p + property[p]
    BY DEF IInv, CallInv, BlocksApart, InBlock
  <2>2. into <= x /\ x < into + property'[into]
          <=> (into <= x /\ x < into + property[into]) \/ (elm <= x /\ x < elm + property[elm])
    BY <1>2, <1>4, <1>5
  <2>3. \A p \in head' : p # into => (x < p + property'[p] <=> x < p + property[p])
    BY <1>1, <1>5
  <2>4. ASSUME NEW p \in head, p <= x, x < p + property[p]
        PROVE  \E q \in head' : q <= x /\ x < q + property'[q]
    <3>1. CASE p = into \/ p = elm
      BY <1>4, <2>2, <2>4, <3>1
    <3>2. CASE p # into /\ p # elm
      BY <1>1, <2>3, <2>4, <3>2
    <3> QED BY <3>1, <3>2
  <2>5. ASSUME NEW p \in head', p <= x, x < p + property'[p]
        PROVE  \E q \in head : q <= x /\ x < q + property[q]
    <3>1. CASE p = into
      BY <2>2, <2>5, <3>1
    <3>2. CASE p # into
      BY <1>1, <2>3, <2>5, <3>2
    <3> QED BY <3>1, <3>2
  <2> QED BY <1>1, <2>1, <2>4, <2>5
<1>11. BlocksApart'
  <2>1. \A p \in head' : 0 < property'[p] /\ p + property'[p] <= NPage
    BY <1>1, <1>2, <1>5
  <2>2. nr_free' = NPage - Cardinality(used')
    BY <1>1 DEF IInv, CallInv, BlocksApart
  <2> QED BY <1>9, <1>10, <2>1, <2>2 DEF BlocksApart, InBlock
<1>12. ASSUME NEW p \in head', NEW q \in head', p + property'[p] = q
       PROVE  into \in {p, q} /\ (q = into => p + property[p] = into)
  <2>1. p # elm /\ q # elm /\ p \in head /\ q \in head
    BY <1>1
  <2>2. p = into => q # into
    BY <1>2, <1>5, <1>12, <2>1
  <2>3. p # into => p + property[p] = q
    BY <1>5, <1>12, <2>1
  <2> QED BY <2>1, <2>2, <2>3
<1> QED BY <1>4, <1>6, <1>7, <1>8, <1>11, <1>12

(* After merge_prev nothing touches below,                                  *)
LEMMA MergePrevInv ==
  ASSUME IInv, merge_prev, UNCHANGED pmm_manager
  PROVE  IInv'
<1> USE ListedFacts, NPageNat
<1> DEFINE p == prev[base]
<1>1. /\ pc = "merge_prev" /\ pc' = "merge_next" /\ UNCHANGED <<nr_free, used, n, le, page, min_size>>
      /\ base \in head /\ OnList = head /\ OnList' = head'
  BY DEF merge_prev, IInv, CallInv, CallState, OnList
<1>2. p \in head \cup {HEAD} /\ p < base /\ \A q \in head : q < base => q <= p
  BY <1>1 DEF Neighbours
<1>3. \A x, y \in head : x + property[x] = y => base \in {x, y}
  BY <1>1 DEF IInv, CallInv, MergedButBase
<1> HIDE DEF p
<1>4. CASE p # HEAD /\ p + property[p] = base
  <2>1. Merge(p, base) /\ base' = p /\ p \in head
    BY <1>1, <1>2, <1>4 DEF merge_prev, Merge, p
  <2>2. /\ ListOrdered' /\ BlocksApart' /\ p \in head'
        /\ next' \in Links /\ prev' \in Links /\ property' \in [Pages -> 0 .. NPage]
        /\ head' \subseteq Pages
        /\ \A x, y \in head' : x + property'[x] = y => p \in {x, y}
        /\ \A x \in head' : x + property'[x] = p => x + property[x] = p
    BY <1>1, <1>3, <1>4, <2>1, MergeInv
  <2>3. TypeOK'
    BY <1>1, <2>1, <2>2 DEF IInv, TypeOK, Links
  <2>4. ASSUME NEW x \in head', NEW y \in head', x + property'[x] = y PROVE x = p
    <3>1. x # base /\ y # base /\ x \in head /\ y \in head
      BY <2>1 DEF Merge
    <3>2. CASE y = p
      BY <1>3, <2>2, <2>4, <3>1, <3>2, <1>2
    <3> QED BY <2>2, <2>4, <3>2
  <2>5. MergedButBase' /\ CallState'
    BY <1>1, <2>1, <2>2, <2>4 DEF MergedButBase, CallState
  <2> QED BY <2>2, <2>3, <2>5 DEF IInv, CallInv
<1>5. CASE ~ (p # HEAD /\ p + property[p] = base)
  <2>1. UNCHANGED <<links, property, head, base>>
    BY <1>5 DEF merge_prev, p
  <2>2. ListOrdered' /\ BlocksApart'
    BY <1>1, <2>1, SameList, SameBlocks DEF IInv, CallInv
  <2>3. TypeOK'
    BY <1>1, <2>1 DEF IInv, TypeOK, links
  <2>4. ASSUME NEW x \in head, NEW y \in head, x + property[x] = y PROVE x = base
    <3> SUFFICES ASSUME x # base PROVE FALSE
      OBVIOUS
    <3>1. y = base
      BY <1>3, <2>4
    <3>2. x < base /\ x <= p /\ x \in Int /\ p \in Int /\ base \in Int /\ property[x] \in Int
      BY <1>1, <1>2, <2>4, <3>1, BlocksAre
    <3>3. p \in head
      BY <1>2, <3>2
    <3>4. x < p
      BY <1>5, <2>4, <3>1, <3>2, <3>3
    <3>5. x + property[x] <= p
      BY <3>3, <3>4 DEF IInv, CallInv, BlocksApart
    <3> QED BY <1>2, <2>4, <3>1, <3>2, <3>5
  <2>5. MergedButBase' /\ CallState'
    BY <1>1, <2>1, <2>4 DEF MergedButBase, CallState
  <2> QED BY <2>2, <2>3, <2>5 DEF IInv, CallInv
<1> QED BY <1>4, <1>5

(* and after merge_next nothing touches at all.                             *)
LEMMA MergeNextInv ==
  ASSUME IInv, merge_next, UNCHANGED pmm_manager
  PROVE  IInv'
<1> USE ListedFacts, NPageNat
<1> DEFINE p == next[base]
<1>1. /\ pc = "merge_next" /\ pc' = "idle" /\ UNCHANGED <<nr_free, used>>
      /\ base \in head /\ OnList = head /\ OnList' = head'
  BY DEF merge_next, Return, IInv, CallInv, CallState, OnList
<1>2. p \in head \cup {HEAD} /\ (p # HEAD => base < p)
      /\ \A q \in head : base < q => p # HEAD /\ p <= q
  BY <1>1 DEF Neighbours
<1>3. \A x, y \in head : x + property[x] = y => x = base
  BY <1>1 DEF IInv, CallInv, MergedButBase
<1>4. CallState'
  BY <1>1 DEF CallState
<1>5. /\ base' \in Pages /\ n' \in 0 .. NPage /\ le' \in Entry /\ page' \in Pages \cup {NIL}
      /\ min_size' \in 0 .. NPage + 1 /\ pc' = "idle"
  BY DEF merge_next, Return
<1> HIDE DEF p
<1>6. CASE p # HEAD /\ base + property[base] = p
  <2>1. Merge(base, p) /\ p \in head
    BY <1>1, <1>2, <1>6 DEF merge_next, Merge, p
  <2>2. /\ ListOrdered' /\ BlocksApart' /\ base \in head'
        /\ next' \in Links /\ prev' \in Links /\ property' \in [Pages -> 0 .. NPage]
        /\ head' \subseteq Pages
        /\ \A x, y \in head' : x + property'[x] = y => base \in {x, y}
        /\ \A x \in head' : x + property'[x] = base => x + property[x] = base
    BY <1>1, <1>3, <1>6, <2>1, MergeInv
  <2>3. TypeOK'
    BY <1>1, <1>5, <2>2 DEF IInv, TypeOK, Links
  <2>4. ASSUME NEW x \in head', NEW y \in head', x + property'[x] = y PROVE FALSE
    <3>0. x \in head /\ y \in head /\ y # p /\ x # p
      BY <2>1 DEF Merge
    <3>1. \A q \in head : q \in Int /\ property[q] \in Int /\ 0 < property[q]
      BY BlocksAre
    <3>2. CASE y = base
      BY <1>1, <1>3, <2>2, <2>4, <3>0, <3>1, <3>2
    <3>3. CASE x = base
      <4>1. property' = [property EXCEPT ![base] = property[base] + property[p]]
        BY <2>1 DEF Merge
      <4>2. property'[base] = property[base] + property[p]
        BY <1>1, <4>1 DEF IInv, TypeOK
      <4>3. p + property[p] = y
        BY <1>1, <1>6, <2>1, <2>4, <3>1, <3>3, <4>2
      <4> QED BY <1>3, <2>1, <3>0, <3>3, <4>3
    <3> QED BY <2>2, <2>4, <3>2, <3>3
  <2>5. MergedButBase'
    BY <2>4 DEF MergedButBase
  <2> QED BY <1>4, <2>2, <2>3, <2>5 DEF IInv, CallInv
<1>7. CASE ~ (p # HEAD /\ base + property[base] = p)
  <2>1. UNCHANGED <<links, property, head>>
    BY <1>7 DEF merge_next, p
  <2>2. ListOrdered' /\ BlocksApart'
    BY <1>1, <2>1, SameList, SameBlocks DEF IInv, CallInv
  <2>3. TypeOK'
    BY <1>1, <1>5, <2>1 DEF IInv, TypeOK, links
  <2>4. ASSUME NEW x \in head, NEW y \in head, x + property[x] = y PROVE FALSE
    <3>1. \A q \in head : q \in Int /\ property[q] \in Int /\ 0 < property[q]
      BY BlocksAre
    <3>2. x = base /\ base < y
      BY <1>3, <2>4, <3>1
    <3>3. p \in head /\ base < p /\ p <= y
      BY <1>2, <3>2
    <3>4. base + property[base] <= p
      BY <1>1, <3>3 DEF IInv, CallInv, BlocksApart
    <3> QED BY <1>1, <1>7, <2>4, <3>1, <3>2, <3>3, <3>4
  <2>5. MergedButBase'
    BY <2>1, <2>4 DEF MergedButBase
  <2> QED BY <1>4, <2>2, <2>3, <2>5 DEF IInv, CallInv
<1> QED BY <1>6, <1>7

(* Every step keeps the invariant.                                          *)
LEMMA NextInv == FreesBelow /\ IInv /\ [Next]_vars => IInv'
<1> SUFFICES ASSUME FreesBelow, IInv, [Next]_vars PROVE IInv'
  OBVIOUS
<1>1. ASSUME NEW k \in 1 .. NPage, alloc_pages(k), UNCHANGED pmm_manager PROVE IInv'
  BY <1>1, AllocPagesInv
<1>2. ASSUME NEW b \in Pages, NEW k \in 1 .. NPage - b, free_pages(b, k), UNCHANGED pmm_manager
      PROVE  IInv'
  BY <1>2, FreePagesInv
<1>3. CASE Work /\ UNCHANGED pmm_manager
  BY <1>3, SearchInv, TakeInv, InsertInv, MergePrevInv, MergeNextInv DEF Work
<1>4. CASE UNCHANGED vars
  <2>1. OnList' = OnList
    BY <1>4 DEF vars, OnList
  <2>2. ListOrdered' /\ BlocksApart'
    BY <1>4, <2>1, SameList, SameBlocks DEF vars, IInv, CallInv
  <2>3. TypeOK' /\ MergedButBase'
    BY <1>4 DEF vars, links, IInv, CallInv, TypeOK, MergedButBase
  <2>4. CallState'
    BY <1>4, <2>1 DEF vars, IInv, CallInv, CallState, TooSmall, Better, Passed, BestFit
  <2> QED BY <2>2, <2>3, <2>4 DEF IInv, CallInv
<1> QED BY <1>1, <1>2, <1>3, <1>4 DEF Next

-----------------------------------------------------------------------------
(* A sum over a set is what any function says it is that grows by g[x] when  *)
(* x comes in.                                                              *)
Grows(W, g, H) ==
  W[{}] = 0 /\ \A s \in SUBSET H : \A x \in s : W[s] = g[x] + W[s \ {x}]

SumOf(g, H) ==
  LET iter[s \in SUBSET H] ==
        IF s = {} THEN 0
        ELSE LET x == CHOOSE x \in s : TRUE IN g[x] + iter[s \ {x}]
  IN  iter[H]

(* SumOf is the sum, whatever order its CHOOSE takes the blocks in.         *)
LEMMA SumIs ==
  ASSUME NEW H, IsFiniteSet(H), NEW g, NEW W, Grows(W, g, H)
  PROVE  SumOf(g, H) = W[H]
<1> DEFINE pick(s) == CHOOSE x \in s : TRUE
           F(f) == [s \in SUBSET H |-> IF s = {} THEN 0 ELSE g[pick(s)] + f[s \ {pick(s)}]]
           iter == CHOOSE f : f = F(f)
           V == [s \in SUBSET H |-> W[s]]
<1> USE DEF Grows
<1>1. SumOf(g, H) = iter[H]
  BY DEF SumOf
<1>2. \A s \in SUBSET H : s # {} => pick(s) \in s /\ s \ {pick(s)} \in SUBSET H
  OBVIOUS
<1> HIDE DEF pick
<1>3. V = F(V)
  BY <1>2
<1>4. iter = F(iter)
  BY <1>3
<1> HIDE DEF V, iter
<1>5. \A s \in SUBSET H : iter[s] = IF s = {} THEN 0 ELSE g[pick(s)] + iter[s \ {pick(s)}]
  BY <1>4
<1> DEFINE B == {s \in SUBSET H : iter[s] # W[s]}
<1>6. ASSUME B # {} PROVE FALSE
  <2>1. PICK s \in B : \A t \in B : ~ (t \subseteq s /\ t # s)
    <3>1. B \in SUBSET (SUBSET H)
      OBVIOUS
    <3> HIDE DEF B
    <3> QED BY <1>6, <3>1, Smallest
  <2>2. s # {}
    BY <1>5, <2>1
  <2>3. pick(s) \in s /\ s \ {pick(s)} \in SUBSET H /\ s \ {pick(s)} \notin B
    BY <1>2, <2>1, <2>2
  <2>4. iter[s \ {pick(s)}] = W[s \ {pick(s)}]
    BY <2>3
  <2> QED BY <1>5, <2>1, <2>2, <2>3, <2>4
<1> QED BY <1>1, <1>6

-----------------------------------------------------------------------------
(* Following next from the list head meets all the blocks.                  *)
LEMMA ListedIsHead ==
  ASSUME IInv, pc = "idle"
  PROVE  Listed = head
<1> USE ListedFacts, NPageNat
<1>1. OnList = head /\ Neighbours(head, next, prev)
  BY DEF OnList
<1> DEFINE D == SUBSET (head \cup {HEAD})
           G == [s \in D |-> s \cup {next[e] : e \in s \ {HEAD, NIL}}]
           F(f) == [i \in 0 .. NPage |->
                      IF i = 0 THEN {next[HEAD]}
                      ELSE f[i - 1] \cup {next[e] : e \in f[i - 1] \ {HEAD, NIL}}]
           Reach == CHOOSE f : f = F(f)
<1>2. Listed = Reach[NPage] \ {HEAD}
  BY DEF Listed
<1>3. \A e \in head \cup {HEAD} : next[e] \in head \cup {HEAD}
  BY <1>1 DEF Neighbours
<1>4. G \in [D -> D]
  BY <1>3
<1>5. {next[HEAD]} \in D
  BY <1>3
<1>6. \A s \in D : G[s] = s \cup {next[e] : e \in s \ {HEAD, NIL}}
  OBVIOUS
<1> HIDE DEF D, G
<1>7. PICK f \in [0 .. NPage -> D] :
        f[0] = {next[HEAD]} /\ \A k \in 1 .. NPage : f[k] = G[f[k - 1]]
  <2>1. NPage \in Nat
    BY NPageNat
  <2>2. HasIterates(D, G, {next[HEAD]}, NPage)
    BY <1>4, <1>5, <2>1, Iterates
  <2> QED BY <2>2 DEF HasIterates
<1>8. \A k \in 1 .. NPage : k - 1 \in 0 .. NPage /\ f[k - 1] \in D
  BY <1>7
<1>9. f = F(f)
  <2>1. \A k \in 1 .. NPage : f[k] = f[k - 1] \cup {next[e] : e \in f[k - 1] \ {HEAD, NIL}}
    BY <1>6, <1>7, <1>8
  <2> QED BY <1>7, <2>1
<1>10. Reach = F(Reach)
  BY <1>9
<1> HIDE DEF Reach
<1>11. Reach[0] = {next[HEAD]}
  BY <1>10
<1>12. \A k \in 0 .. NPage - 1 : /\ k + 1 \in 0 .. NPage
             /\ Reach[k + 1] = Reach[k] \cup {next[e] : e \in Reach[k] \ {HEAD, NIL}}
  <2> TAKE k \in 0 .. NPage - 1
  <2>1. k + 1 \in 0 .. NPage /\ k + 1 # 0 /\ (k + 1) - 1 = k
    OBVIOUS
  <2> QED BY <1>10, <2>1
<1> DEFINE P == {k \in 0 .. NPage : /\ Reach[k] \subseteq head \cup {HEAD}
                                    /\ next[HEAD] \in Reach[k]
                                    /\ \A q \in head : q <= k => q \in Reach[k]}
<1>13. 0 \in P
  <2>1. \A q \in head : q <= 0 => q = next[HEAD]
    BY <1>1, <1>3 DEF Neighbours
  <2> QED BY <1>3, <1>11, <2>1
<1>14. ASSUME NEW k \in 0 .. NPage - 1, k \in P PROVE k + 1 \in P
  <2>1. Reach[k + 1] \subseteq head \cup {HEAD} /\ next[HEAD] \in Reach[k + 1]
    BY <1>3, <1>12, <1>14
  <2>2. ASSUME NEW q \in head, q <= k + 1 PROVE q \in Reach[k + 1]
    <3>1. prev[q] \in head \cup {HEAD} /\ next[prev[q]] = q /\ prev[q] < q
      BY <1>1 DEF Neighbours
    <3>2. CASE prev[q] = HEAD
      BY <2>1, <3>1, <3>2
    <3>3. CASE prev[q] # HEAD
      <4>1. prev[q] \in head /\ prev[q] <= k /\ prev[q] \notin {HEAD, NIL}
        BY <2>2, <3>1, <3>3
      <4>2. prev[q] \in Reach[k]
        BY <1>14, <4>1
      <4> QED BY <1>12, <3>1, <4>1, <4>2
    <3> QED BY <3>2, <3>3
  <2> QED BY <1>12, <2>1, <2>2
<1>15. NPage \in P
  <2>1. NPage \in Nat /\ NPage \in 0 .. NPage
    BY NPageNat
  <2> HIDE DEF P
  <2>2. 0 .. NPage \subseteq P
    BY ONLY <1>13, <1>14, <2>1, Induction
  <2> QED BY <2>1, <2>2
<1> QED BY <1>2, <1>15

(* What default_check adds up is the number of pages nobody holds.          *)
LEMMA SumIsFree ==
  ASSUME IInv
  PROVE  MapThenSumSet(LAMBDA p : property[p], head) = nr_free
<1> USE ListedFacts, NPageNat
<1> DEFINE PagesOf(s) == {x \in Pages : \E p \in s : InBlock(p, x)}
           W == [s \in SUBSET head |-> Cardinality(PagesOf(s))]
<1>1. IsFiniteSet(head)
  BY PagesFinite
<1>2. W[{}] = 0
  <2>1. PagesOf({}) = {}
    OBVIOUS
  <2> QED BY <2>1, FS_EmptySet
<1>3. ASSUME NEW s \in SUBSET head, NEW x \in s
      PROVE  W[s] = property[x] + W[s \ {x}]
  <2> DEFINE U == PagesOf(s \ {x})
  <2>1. x \in Pages /\ x \in Int /\ property[x] \in Nat /\ x + property[x] <= NPage
    BY BlocksAre
  <2>2. \A y \in Pages : y \in Int
    OBVIOUS
  <2>3. \A y \in Pages : y \in Block(x, property[x]) <=> InBlock(x, y)
    BY <2>1, <2>2 DEF Block, InBlock
  <2>4. Block(x, property[x]) \in SUBSET Pages
    BY <2>1, BlockSize
  <2>5. ASSUME NEW q \in s \ {x}, NEW y \in Pages, InBlock(q, y), InBlock(x, y) PROVE FALSE
    <3>1. q \in Int /\ property[q] \in Int /\ (q + property[q] <= x \/ x + property[x] <= q)
      BY BlocksAre
    <3> QED BY <2>1, <2>2, <2>5, <3>1 DEF InBlock
  <2>6. Block(x, property[x]) \cap U = {}
    BY <2>3, <2>4, <2>5
  <2>7. PagesOf(s) = U \cup Block(x, property[x])
    BY <2>3, <2>4
  <2>8. U \in SUBSET Pages
    OBVIOUS
  <2>9. W[s] = Cardinality(PagesOf(s)) /\ W[s \ {x}] = Cardinality(U)
    OBVIOUS
  <2> HIDE DEF U, PagesOf, W
  <2>10. Cardinality(U \cup Block(x, property[x])) = Cardinality(U) + property[x]
    BY <2>1, <2>6, <2>8, HoldBlock
  <2>11. Cardinality(U) \in Int
    BY <2>8, PagesFinite
  <2> QED BY <2>1, <2>7, <2>9, <2>10, <2>11
<1>4. W[head] = nr_free
  <2>1. PagesOf(head) = Pages \ used
    BY DEF IInv, CallInv, BlocksApart
  <2>2. used \in SUBSET Pages /\ nr_free = NPage - Cardinality(used)
    BY DEF IInv, CallInv, BlocksApart, TypeOK
  <2>3. IsFiniteSet(Pages) /\ Cardinality(Pages) = NPage
    BY PagesCount
  <2>4. Cardinality(Pages \ used) = Cardinality(Pages) - Cardinality(Pages \cap used)
    BY <2>3, FS_Difference
  <2>5. Pages \cap used = used
    BY <2>2
  <2> QED BY <2>1, <2>2, <2>3, <2>4, <2>5
<1> HIDE DEF W
<1>5. SumOf(property, head) = W[head]
  <2>1. Grows(W, property, head)
    BY <1>2, <1>3 DEF Grows
  <2> QED BY <1>1, <2>1, SumIs
<1>6. MapThenSumSet(LAMBDA p : property[p], head) = SumOf(property, head)
  BY DEF MapThenSumSet, MapThenFoldSet, SumOf
<1> QED BY <1>4, <1>5, <1>6

(* The parts of FreeListInv about the list between two calls.               *)
LEMMA IdleList ==
  ASSUME IInv
  PROVE  FreeListCheck /\ LinksAgree /\ MemoryPartitioned /\ FlagsExact /\ FullyMerged
<1> SUFFICES ASSUME pc = "idle"
             PROVE  FreeListCheck /\ LinksAgree /\ MemoryPartitioned /\ FlagsExact /\ FullyMerged
  BY DEF FreeListCheck, LinksAgree, MemoryPartitioned, FlagsExact, FullyMerged
<1>1. Listed = head
  BY ListedIsHead
<1>2. FreeListCheck
  <2>1. MapThenSumSet(LAMBDA p : property[p], Listed) = nr_free
    BY <1>1, SumIsFree
  <2> QED BY <1>1, <2>1 DEF FreeListCheck
<1>3. LinksAgree
  <2>1. OnList = head /\ Neighbours(OnList, next, prev)
    BY ListedFacts DEF OnList
  <2> QED BY <1>1, <2>1 DEF LinksAgree, Neighbours
<1>4. MemoryPartitioned
  <2>1. \A p, q \in head : p < q => p + property[p] <= q
    BY DEF IInv, CallInv, BlocksApart
  <2>2. \A x \in Pages : x \notin used <=> \E p \in head : InBlock(p, x)
    BY DEF IInv, CallInv, BlocksApart
  <2>3. ASSUME NEW p \in head
        PROVE  Block(p, property[p]) \subseteq Pages /\ \A x \in Pages : x \in Block(p, property[p]) <=> InBlock(p, x)
    <3>1. p \in Pages /\ p \in Int /\ property[p] \in Nat /\ p + property[p] <= NPage
      BY <2>3, BlocksAre, ListedFacts
    <3>2. \A x \in Pages : x \in Int
      BY NPageNat
    <3>3. Block(p, property[p]) \subseteq Pages
      BY <3>1, BlockSize
    <3> QED BY <3>1, <3>2, <3>3 DEF Block, InBlock
  <2>4. used \subseteq Pages
    BY DEF IInv, TypeOK
  <2>5. used = Pages \ UNION {Block(p, property[p]) : p \in head}
    <3> HIDE DEF Block
    <3> QED BY <2>2, <2>3, <2>4
  <2> QED BY <1>1, <2>1, <2>5 DEF MemoryPartitioned
<1>5. FlagsExact
  BY <1>1 DEF FlagsExact
<1>6. FullyMerged
  <2>1. \A p, q \in head : (p < q => p + property[p] <= q) /\ p + property[p] # q
    BY DEF IInv, CallInv, BlocksApart, MergedButBase
  <2>2. \A p \in head : p + property[p] \in Int /\ p \in Int
    BY BlocksAre
  <2> QED BY <1>1, <2>1, <2>2 DEF FullyMerged
<1> QED BY <1>2, <1>3, <1>4, <1>5, <1>6

(* After any sequence of alloc_pages and free_pages, with either allocator,  *)
(* the list is linked both ways in the order of addresses, flagged, counted *)
(* and fully merged between two calls, and with the pages that callers hold *)
(* it makes up the memory.                                                  *)
THEOREM FreeListWellFormed ==
  ASSUME FreesBelow
  PROVE  Spec => []FreeListInv
<1>1. IInv => FreeListInv
  BY IdleList DEF IInv, FreeListInv
<1>2. IInv /\ [Next]_vars => IInv'
  BY NextInv
<1> QED BY <1>1, <1>2, InitInv, PTL DEF Spec

-----------------------------------------------------------------------------
(* What alloc_pages gives out.                                              *)
LEMMA MinIs ==
  ASSUME NEW S \in SUBSET Int, NEW m \in S, \A y \in S : m <= y
  PROVE  Min(S) = m
<1>1. \A x \in S : (\A y \in S : x <= y) => x = m
  OBVIOUS
<1> QED BY <1>1 DEF Min

(* The greatest element is what Max chooses.                                *)
LEMMA MaxIs ==
  ASSUME NEW S \in SUBSET Int, NEW m \in S, \A y \in S : y <= m
  PROVE  Max(S) = m
<1>1. \A x \in S : (\A y \in S : x >= y) => x = m
  OBVIOUS
<1>2. \A y \in S : m >= y
  OBVIOUS
<1> QED BY <1>1, <1>2 DEF Max

(* While no release is at work, no two blocks touch: so a run of pages      *)
(* nobody holds lies inside one block.                                      *)
LEMMA RunInBlock ==
  ASSUME IInv, pc \in {"search", "take"}, NEW b \in Pages, NEW k \in 1 .. NPage, RunFits(b, k)
  PROVE  \E p \in head : p <= b /\ b + k <= p + property[p]
<1> USE NPageNat
<1>1. \A p \in head : /\ p \in Int /\ property[p] \in Int /\ 0 < property[p] /\ p + property[p] <= NPage
                      /\ p >= 0
                      /\ \A q \in head : q # p => q + property[q] <= p \/ p + property[p] <= q
  BY BlocksAre, ListedFacts
<1>2. \A p, q \in head : p + property[p] # q
  BY DEF IInv, CallInv, MergedButBase
<1>3. \A x \in Pages : x \in Int /\ (x \notin used => \E p \in head : p <= x /\ x < p + property[p])
  BY DEF IInv, CallInv, BlocksApart, InBlock
<1>4. b + k <= NPage /\ b \in Int /\ k \in Int /\ 0 <= b /\ 0 < k
      /\ \A x \in Pages : b <= x /\ x < b + k => x \notin used
  BY <1>3 DEF RunFits, Block
<1>5. PICK p \in head : p <= b /\ b < p + property[p]
  BY <1>3, <1>4
<1> DEFINE e == p + property[p]
<1>6. ASSUME ~ (b + k <= e) PROVE FALSE
  <2>1. e \in Int /\ b < e /\ e < b + k /\ e \in Pages
    BY <1>1, <1>4, <1>5, <1>6
  <2>2. PICK q \in head : q <= e /\ e < q + property[q]
    BY <1>3, <1>4, <2>1
  <2>3. q # p
    BY <2>1, <2>2
  <2>4. q + property[q] <= p \/ e <= q
    BY <1>1, <2>3
  <2>5. q + property[q] <= p => FALSE
    BY <1>1, <2>1, <2>2
  <2>6. e = q
    BY <1>1, <2>1, <2>2, <2>4, <2>5
  <2> QED BY <1>2, <2>6
<1> QED BY <1>5, <1>6

(* So the runs are the blocks.                                              *)
LEMMA RunsAreBlocks ==
  ASSUME IInv, pc \in {"search", "take"}
  PROVE  Runs = head /\ \A b \in head : RunLength(b) = property[b]
<1> USE NPageNat
<1>1. \A p \in head : /\ p \in Int /\ property[p] \in Int /\ 0 < property[p] /\ p + property[p] <= NPage
                      /\ p >= 0 /\ p \in Pages
                      /\ \A q \in head : q # p => q + property[q] <= p \/ p + property[p] <= q
  BY BlocksAre, ListedFacts
<1>2. \A p, q \in head : p + property[p] # q
  BY DEF IInv, CallInv, MergedButBase
<1>3. \A x \in Pages : x \in Int /\ x >= 0
                       /\ (x \notin used <=> \E p \in head : p <= x /\ x < p + property[p])
  BY DEF IInv, CallInv, BlocksApart, InBlock
<1>4. ASSUME NEW b \in head PROVE b \in Runs
  <2>1. b \in Pages /\ b \notin used
    BY <1>1, <1>3
  <2>2. ASSUME b # 0, b - 1 \notin used PROVE FALSE
    <3>1. b - 1 \in Pages
      BY <1>1, <2>2
    <3>2. PICK p \in head : p <= b - 1 /\ b - 1 < p + property[p]
      BY <1>3, <2>2, <3>1
    <3>3. p # b /\ p < b /\ b <= p + property[p]
      BY <1>1, <3>2
    <3>4. p + property[p] <= b
      BY <1>1, <3>3
    <3> QED BY <1>1, <1>2, <3>3, <3>4
  <2> QED BY <2>1, <2>2 DEF Runs
<1>5. ASSUME NEW b \in Runs PROVE b \in head
  <2>1. b \in Pages /\ b \notin used /\ (b = 0 \/ b - 1 \in used)
    BY DEF Runs
  <2>2. PICK p \in head : p <= b /\ b < p + property[p]
    BY <1>3, <2>1
  <2>3. ASSUME p # b PROVE FALSE
    <3>1. b - 1 \in Pages /\ p <= b - 1 /\ b - 1 < p + property[p] /\ b # 0
      BY <1>1, <1>3, <2>1, <2>2, <2>3
    <3> QED BY <1>3, <2>1, <3>1
  <2> QED BY <2>2, <2>3
<1>6. ASSUME NEW b \in head PROVE RunLength(b) = property[b]
  <2> DEFINE S == {k \in 1 .. NPage : RunFits(b, k)}
  <2>1. b \in Pages /\ property[b] \in 1 .. NPage /\ b + property[b] <= NPage
        /\ Block(b, property[b]) \cap used = {}
    BY FreeBlock DEF IInv, CallInv
  <2>2. property[b] \in S
    BY <2>1 DEF RunFits
  <2>3. ASSUME NEW k \in S PROVE k <= property[b]
    <3>1. PICK p \in head : p <= b /\ b + k <= p + property[p]
      BY <2>1, RunInBlock
    <3>2. k \in Int /\ 0 < k
      OBVIOUS
    <3>3. p = b
      BY <1>1, <3>1, <3>2
    <3> QED BY <1>1, <3>1, <3>2, <3>3
  <2>4. S \in SUBSET Int
    OBVIOUS
  <2> HIDE DEF S
  <2>5. Max(S) = property[b]
    BY <2>2, <2>3, <2>4, MaxIs
  <2> QED BY <2>5 DEF S, RunLength
<1> QED BY <1>4, <1>5, <1>6

(* The block that take finds is the one the policy chooses,                 *)
LEMMA TakesChosen ==
  ASSUME IInv, pc = "take"
  PROVE  page = Chosen(n)
<1>1. /\ n > 0 /\ page \in head /\ ~ TooSmall(page)
      /\ \A q \in head : TooSmall(q) \/ IF BestFit THEN Better(page, q) ELSE page <= q
  BY DEF IInv, CallInv, CallState
<1>2. n \in Int /\ \A q \in head : q \in Int /\ property[q] \in Int /\ RunLength(q) = property[q]
  BY BlocksAre, RunsAreBlocks, NPageNat DEF IInv, TypeOK
<1> DEFINE fitting == {b \in Runs : RunLength(b) >= n}
           lengths == {RunLength(b) : b \in fitting}
           best == Min(lengths)
           shortest == {b \in fitting : RunLength(b) = best}
<1>3. fitting \in SUBSET Int /\ page \in fitting
      /\ \A q \in fitting : q \in head /\ ~ TooSmall(q)
  BY <1>1, <1>2, RunsAreBlocks DEF TooSmall
<1> HIDE DEF fitting
<1>4. CASE BestFit
  <2>1. lengths \in SUBSET Int /\ property[page] \in lengths
    BY <1>2, <1>3
  <2>2. \A q \in fitting : Better(page, q)
    BY <1>1, <1>3, <1>4
  <2>3. \A l \in lengths : property[page] <= l
    BY <1>1, <1>2, <1>3, <2>2 DEF Better
  <2> HIDE DEF lengths
  <2>4. best = property[page]
    BY <2>1, <2>3, MinIs
  <2> HIDE DEF best
  <2>5. shortest \in SUBSET Int /\ page \in shortest
    BY <1>1, <1>2, <1>3, <2>4
  <2>6. \A q \in shortest : page <= q
    BY <1>1, <1>2, <1>3, <2>2, <2>4 DEF Better
  <2> HIDE DEF shortest
  <2>7. Min(shortest) = page
    BY <2>5, <2>6, MinIs
  <2> QED BY <1>4, <2>7 DEF Chosen, shortest, best, lengths, fitting
<1>5. CASE ~ BestFit
  <2>1. \A q \in fitting : page <= q
    BY <1>1, <1>3, <1>5
  <2>2. Min(fitting) = page
    BY <1>3, <2>1, MinIs
  <2> QED BY <1>5, <2>2 DEF Chosen, fitting
<1> QED BY <1>4, <1>5

(* and a search that ends without a block has passed them all.              *)
LEMMA FailsOnlyForWant ==
  ASSUME IInv, Next, pc = "search", pc' = "idle"
  PROVE  \A b \in Pages : ~ RunFits(b, n)
<1>1. search
  BY DEF Next, Work, alloc_pages, free_pages, take, insert, merge_prev, merge_next
<1>2. le = HEAD /\ page = NIL
  BY <1>1 DEF search, best_fit, first_fit
<1>3. n > 0 /\ n \in 0 .. NPage /\ \A q \in head : property[q] < n
  BY <1>2 DEF IInv, TypeOK, CallInv, CallState, Passed, TooSmall
<1>4. ASSUME NEW b \in Pages, RunFits(b, n) PROVE FALSE
  <2>1. n \in 1 .. NPage /\ b \in Int
    BY <1>3, NPageNat
  <2>2. PICK p \in head : p <= b /\ b + n <= p + property[p]
    BY <1>4, <2>1, RunInBlock
  <2>3. p \in Int /\ property[p] \in Int /\ property[p] < n
    BY <1>3, BlocksAre
  <2> QED BY <2>1, <2>2, <2>3
<1> QED BY <1>4

(* alloc_pages gives out the lowest of the runs that are long enough, or of *)
(* the shortest of them, and fails only when no run is long enough.         *)
THEOREM AllocPolicyKept ==
  ASSUME FreesBelow
  PROVE  Spec => AllocKeepsPolicy
<1>1. IInv /\ [Next]_vars => [KeepsPolicy]_vars
  BY TakesChosen, FailsOnlyForWant DEF KeepsPolicy
<1>2. IInv /\ [Next]_vars => IInv'
  BY NextInv
<1> QED BY <1>1, <1>2, InitInv, PTL DEF Spec, AllocKeepsPolicy

-----------------------------------------------------------------------------
(* Slub.                                                                    *)

(* The least of a set of numbers is one of them.                            *)
LEMMA MinIn ==
  ASSUME NEW S \in SUBSET Nat, S # {}
  PROVE  Min(S) \in S
<1>1. \E m \in S : \A k \in S : m <= k
  BY Least
<1> QED BY <1>1 DEF Min

(* list_del and list_add leave the other slabs where they are.              *)
LEMMA WithoutIs ==
  ASSUME NEW list \in Seq(SlabPages), IsInjective(list), NEW slab
  PROVE  /\ Without(list, slab) \in Seq(SlabPages) /\ IsInjective(Without(list, slab))
         /\ Range(Without(list, slab)) = Range(list) \ {slab}
<1>1. CASE slab \in Range(list)
  <2> DEFINE i == CHOOSE i \in DOMAIN list : list[i] = slab
  <2>1. i \in DOMAIN list /\ list[i] = slab
    BY <1>1 DEF Range
  <2>2. DOMAIN list = 1 .. Len(list)
    OBVIOUS
  <2>3. Without(list, slab) = SubSeq(list, 1, i - 1) \o SubSeq(list, i + 1, Len(list))
    BY <1>1 DEF Without, RemoveAt
  <2> HIDE DEF i
  <2> DEFINE r == SubSeq(list, 1, i - 1) \o SubSeq(list, i + 1, Len(list))
  <2>4. r \in Seq(SlabPages) /\ IsRemove(r, list, i)
    BY <2>1, <2>2, Dropped
  <2> HIDE DEF r
  <2>5. IsInjective(r) /\ Range(r) = Range(list) \ {list[i]}
    BY <2>1, <2>2, <2>4, DroppedSet
  <2> QED BY <2>1, <2>3, <2>4, <2>5 DEF r
<1>2. CASE slab \notin Range(list)
  BY <1>2 DEF Without
<1> QED BY <1>1, <1>2

(* Three lists of slabs, each slab at most once in a list.                  *)
AreLists(lists) ==
    /\ lists \in [Lists -> Seq(SlabPages)]
    /\ \A l \in Lists : IsInjective(lists[l])

(* The new lists have slab s on list l, and the others where they were.     *)
Placed(new, lists, s, l) ==
    /\ AreLists(new)
    /\ \A k \in Lists :
          Range(new[k]) = (Range(lists[k]) \ {s}) \cup (IF k = l THEN {s} ELSE {})

(* list_del and list_add put the slab on the list asked for.                *)
LEMMA MovedTo ==
  ASSUME NEW lists, AreLists(lists), NEW slab \in SlabPages, NEW l \in Lists
  PROVE  Placed(MoveTo(lists, slab, l), lists, slab, l)
<1> DEFINE r == MoveTo(lists, slab, l)
<1>1. ASSUME NEW k \in Lists
      PROVE  /\ r[k] \in Seq(SlabPages) /\ IsInjective(r[k])
             /\ Range(r[k]) = (Range(lists[k]) \ {slab}) \cup (IF k = l THEN {slab} ELSE {})
  <2> DEFINE w == Without(lists[k], slab)
  <2>1. /\ w \in Seq(SlabPages) /\ IsInjective(w) /\ Range(w) = Range(lists[k]) \ {slab}
    BY WithoutIs DEF AreLists
  <2>2. r[k] = IF k = l THEN <<slab>> \o w ELSE w
    BY DEF MoveTo
  <2> HIDE DEF r, w
  <2>3. CASE k = l
    <3>1. slab \notin Range(w)
      BY <2>1
    <3>2. /\ <<slab>> \o w \in Seq(SlabPages) /\ IsInjective(<<slab>> \o w)
          /\ Range(<<slab>> \o w) = Range(w) \cup {slab}
      BY <2>1, <3>1, QueueFront
    <3> QED BY <2>1, <2>2, <2>3, <3>2
  <2>4. CASE k # l
    BY <2>1, <2>2, <2>4
  <2> QED BY <2>3, <2>4
<1>2. r = [k \in Lists |-> r[k]]
  BY DEF MoveTo
<1> HIDE DEF r
<1>3. r \in [Lists -> Seq(SlabPages)]
  BY <1>1, <1>2
<1> QED BY <1>1, <1>3 DEF AreLists, Placed, r

-----------------------------------------------------------------------------
(* Caches are numbers, so that NULL is none of them.                        *)
LEMMA CacheIs == Caches \subseteq Nat /\ NULL \notin Caches
BY SlubAssumption DEF Caches

(* A multiple is at least what it is a multiple of.                         *)
LEMMA Multiple ==
  ASSUME NEW a \in Nat, NEW b \in Nat, NEW k \in Nat \ {0}, a <= b
  PROVE  a * k \in Nat /\ b * k \in Nat /\ a * k <= b * k /\ a <= a * k
<1>1. \A x, y \in Nat : x * y \in Nat
  OBVIOUS
<1>2. b * k = a * k + (b - a) * k /\ a * k = a + a * (k - 1)
  OBVIOUS
<1>3. (b - a) * k \in Nat /\ a * (k - 1) \in Nat
  BY <1>1
<1> QED BY <1>1, <1>2, <1>3

(* The objects of a slab, the numbers below total_objects, lie in its page. *)
LEMMA ObjectsFit ==
  ASSUME NEW c \in Caches
  PROVE  /\ total_objects(c) \in Nat \ {0} /\ total_objects(c) <= PGSIZE
         /\ \A i \in 0 .. total_objects(c) - 1 :
               SLAB_STRUCT + (i + 1) * SLAB_CACHE_SIZES[c] <= objects_end(c)
<1> DEFINE t == total_objects(c)
           size == SLAB_CACHE_SIZES[c]
<1>1. /\ size \in Nat \ {0} /\ t \in Nat \ {0} /\ SLAB_STRUCT \in Nat /\ PGSIZE \in Nat
      /\ objects_end(c) = SLAB_STRUCT + t * size
      /\ objects_end(c) + BitmapBytes(t) <= PGSIZE
  BY SlubAssumption DEF SlabsFit, objects_end, Caches
<1> HIDE DEF t, size
<1>2. BitmapBytes(t) \in Nat
  BY <1>1 DEF BitmapBytes
<1>3. t <= t * size /\ t * size \in Nat
  BY <1>1, Multiple
<1>4. ASSUME NEW i \in 0 .. t - 1
      PROVE  SLAB_STRUCT + (i + 1) * size <= objects_end(c)
  <2>1. i + 1 \in Nat /\ i + 1 <= t
    BY <1>1
  <2>2. (i + 1) * size <= t * size /\ (i + 1) * size \in Nat
    BY <1>1, <2>1, Multiple
  <2> QED BY <1>1, <1>3, <2>2
<1>5. t <= PGSIZE
  BY <1>1, <1>2, <1>3
<1> QED BY <1>1, <1>4, <1>5 DEF t, size

(* Objects and bitmaps are finite.                                          *)
LEMMA FiniteData ==
  ASSUME SlubTypeOK
  PROVE  IsFiniteSet(objects) /\ \A p \in SlabPages : IsFiniteSet(bitmap[p])
<1>1. IsFiniteSet(0 .. PGSIZE) /\ IsFiniteSet(SlabPages)
  BY SlubAssumption, FS_Interval DEF SlabPages
<1>2. IsFiniteSet(SlabPages \X (0 .. PGSIZE))
  BY <1>1, FS_Product
<1>3. \A p \in SlabPages : bitmap[p] \in SUBSET (0 .. PGSIZE)
  BY DEF SlubTypeOK
<1> QED BY <1>1, <1>2, <1>3, FS_Subset DEF SlubTypeOK

(* What the invariant says of one slab of a cache.                          *)
LEMMA OneSlab ==
  ASSUME SlubInv, NEW p \in SlabPages, cache[p] # NULL
  PROVE  /\ cache[p] \in Caches /\ p \notin pmm_free
         /\ free_objects[p] \in Nat /\ bitmap[p] \in SUBSET (0 .. PGSIZE)
         /\ IsFiniteSet(bitmap[p]) /\ Cardinality(bitmap[p]) \in Nat
         /\ free_objects[p] + Cardinality(bitmap[p]) = total_objects(cache[p])
         /\ \A i \in 0 .. PGSIZE : i \in bitmap[p] <=> <<p, i>> \in objects
         /\ \A b \in large : p \notin PageBlock(b[1], b[2])
<1>1. cache[p] \in Caches /\ p \notin pmm_free
  BY DEF SlubInv, SlubTypeOK, Apart
<1>2. /\ free_objects[p] \in Nat /\ bitmap[p] \in SUBSET (0 .. PGSIZE)
      /\ IsFiniteSet(bitmap[p]) /\ Cardinality(bitmap[p]) \in Nat
  BY FiniteData, FS_CardinalityType DEF SlubInv, SlubTypeOK
<1>3. /\ free_objects[p] + Cardinality(bitmap[p]) = total_objects(cache[p])
      /\ \A i \in 0 .. PGSIZE : i \in bitmap[p] <=> <<p, i>> \in objects
  BY DEF SlubInv, MarkedAreHeld
<1>4. \A b \in large : p \notin PageBlock(b[1], b[2])
  BY DEF SlubInv, Apart
<1> QED BY <1>1, <1>2, <1>3, <1>4

(* A slab on a list of cache c belongs to c, and its count to the list.     *)
LEMMA SlabsOn ==
  ASSUME SlubInv, NEW c \in Caches, NEW l \in Lists
  PROVE  /\ AreLists(slabs[c]) /\ slabs[c][l] \in Seq(SlabPages)
         /\ \A p \in Range(slabs[c][l]) :
               /\ p \in SlabPages /\ cache[p] = c /\ cache[p] # NULL
               /\ ListFor(free_objects[p], total_objects(c)) = l
         /\ \A p \in SlabPages :
               cache[p] = c /\ ListFor(free_objects[p], total_objects(c)) = l
                  => p \in Range(slabs[c][l])
<1>1. AreLists(slabs[c]) /\ slabs[c][l] \in Seq(SlabPages)
  BY DEF SlubInv, SlubTypeOK, OnRightList, AreLists
<1>2. Range(slabs[c][l]) =
        {p \in SlabPages : cache[p] = c /\ ListFor(free_objects[p], total_objects(c)) = l}
  BY DEF SlubInv, OnRightList
<1> QED BY <1>1, <1>2, CacheIs

(* One slab of cache c is put on the list that its count asks for.          *)
LEMMA ListsFollow ==
  ASSUME SlubInv, NEW c \in Caches, NEW s \in SlabPages, cache[s] \in {c, NULL},
         cache' = [cache EXCEPT ![s] = c], NEW count \in Nat,
         free_objects' = [free_objects EXCEPT ![s] = count],
         NEW lists, slabs' = [slabs EXCEPT ![c] = lists],
         NEW l, l = ListFor(count, total_objects(c)), Placed(lists, slabs[c], s, l)
  PROVE  OnRightList' /\ slabs' \in [Caches -> [Lists -> Seq(SlabPages)]]
<1>1. slabs' \in [Caches -> [Lists -> Seq(SlabPages)]]
  BY DEF SlubInv, SlubTypeOK, AreLists, Placed
<1>2. /\ slabs'[c] = lists /\ \A d \in Caches : d # c => slabs'[d] = slabs[d]
      /\ cache'[s] = c /\ \A p \in SlabPages : p # s => cache'[p] = cache[p]
      /\ free_objects'[s] = count
      /\ \A p \in SlabPages : p # s => free_objects'[p] = free_objects[p]
  BY DEF SlubInv, SlubTypeOK
<1>3. ASSUME NEW d \in Caches, NEW k \in Lists
      PROVE  /\ IsInjective(slabs'[d][k])
             /\ Range(slabs'[d][k]) = {p \in SlabPages : cache'[p] = d
                     /\ ListFor(free_objects'[p], total_objects(d)) = k}
  <2>1. /\ IsInjective(slabs[d][k])
        /\ Range(slabs[d][k]) = {p \in SlabPages : cache[p] = d
                     /\ ListFor(free_objects[p], total_objects(d)) = k}
    BY DEF SlubInv, OnRightList
  <2>2. CASE d # c
    <3>1. slabs'[d] = slabs[d] /\ cache[s] # d /\ cache'[s] # d
      BY <1>2, <2>2, CacheIs
    <3> QED BY <1>2, <2>1, <3>1
  <2>3. CASE d = c
    <3>1. /\ IsInjective(slabs'[d][k])
          /\ Range(slabs'[d][k]) = (Range(slabs[d][k]) \ {s}) \cup (IF k = l THEN {s} ELSE {})
      BY <1>2, <2>3 DEF Placed, AreLists
    <3>2. \A p \in SlabPages : p # s =>
             (p \in Range(slabs'[d][k]) <=>
                cache'[p] = d /\ ListFor(free_objects'[p], total_objects(d)) = k)
      BY <1>2, <2>1, <3>1
    <3>3. s \in Range(slabs'[d][k]) <=>
                cache'[s] = d /\ ListFor(free_objects'[s], total_objects(d)) = k
      BY <1>2, <2>3, <3>1
    <3>4. Range(slabs'[d][k]) \subseteq SlabPages
      BY <2>1, <3>1
    <3> QED BY <3>1, <3>2, <3>3, <3>4
  <2> QED BY <2>2, <2>3
<1> QED BY <1>1, <1>3 DEF OnRightList

(* An object that is not held yet is marked and given to a caller.          *)
LEMMA OneMoreHeld ==
  ASSUME SlubInv, NEW c \in Caches, NEW s \in SlabPages, cache[s] \in {c, NULL},
         cache' = [cache EXCEPT ![s] = c],
         NEW taken \in SUBSET (0 .. PGSIZE), IsFiniteSet(taken), NEW count \in Nat \ {0},
         count + Cardinality(taken) = total_objects(c),
         \A i \in 0 .. PGSIZE : i \in taken <=> <<s, i>> \in objects,
         NEW i \in 0 .. total_objects(c) - 1, i \notin taken,
         bitmap' = [bitmap EXCEPT ![s] = taken \cup {i}],
         free_objects' = [free_objects EXCEPT ![s] = count - 1],
         objects' = objects \cup {<<s, i>>}, potential_leaks' = potential_leaks + 1
  PROVE  /\ MarkedAreHeld' /\ bitmap' \in [SlabPages -> SUBSET (0 .. PGSIZE)]
         /\ objects' \subseteq SlabPages \X (0 .. PGSIZE)
<1>1. i \in 0 .. PGSIZE /\ <<s, i>> \notin objects /\ c # NULL
  BY ObjectsFit, CacheIs, SlubAssumption
<1>2. /\ cache'[s] = c /\ \A p \in SlabPages : p # s => cache'[p] = cache[p]
      /\ bitmap'[s] = taken \cup {i} /\ \A p \in SlabPages : p # s => bitmap'[p] = bitmap[p]
      /\ free_objects'[s] = count - 1
      /\ \A p \in SlabPages : p # s => free_objects'[p] = free_objects[p]
      /\ \A p \in SlabPages, k \in 0 .. PGSIZE : <<p, k>> \in objects' <=>
             <<p, k>> \in objects \/ (p = s /\ k = i)
  BY DEF SlubInv, SlubTypeOK
<1>3. /\ Cardinality(taken) \in Nat /\ Cardinality(taken \cup {i}) = Cardinality(taken) + 1
      /\ Cardinality(objects') = Cardinality(objects) + 1
  BY <1>1, FS_AddElement, FS_CardinalityType, FiniteData DEF SlubInv
<1>4. ASSUME NEW p \in SlabPages, cache'[p] # NULL
      PROVE  /\ \A k \in 0 .. PGSIZE : k \in bitmap'[p] <=> <<p, k>> \in objects'
             /\ free_objects'[p] + Cardinality(bitmap'[p]) = total_objects(cache'[p])
  <2>1. CASE p = s
    <3>1. \A k \in 0 .. PGSIZE : k \in bitmap'[p] <=> <<p, k>> \in objects'
      BY <1>2, <2>1
    <3>2. total_objects(c) \in Nat
      BY ObjectsFit
    <3>3. (count - 1) + (Cardinality(taken) + 1) = total_objects(c)
      BY <1>3, <3>2
    <3> QED BY <1>2, <1>3, <2>1, <3>1, <3>3
  <2>2. CASE p # s
    <3>1. cache'[p] = cache[p] /\ bitmap'[p] = bitmap[p] /\ free_objects'[p] = free_objects[p]
      BY <1>2, <2>2
    <3>2. \A k \in 0 .. PGSIZE : <<p, k>> \in objects' <=> <<p, k>> \in objects
      BY <1>2, <2>2
    <3>3. /\ \A k \in 0 .. PGSIZE : k \in bitmap[p] <=> <<p, k>> \in objects
          /\ free_objects[p] + Cardinality(bitmap[p]) = total_objects(cache[p])
      BY <1>4, <3>1 DEF SlubInv, MarkedAreHeld
    <3> QED BY <3>1, <3>2, <3>3
  <2> QED BY <2>1, <2>2
<1>5. \A o \in objects' : cache'[o[1]] # NULL
  <2> SUFFICES ASSUME NEW o \in objects' PROVE cache'[o[1]] # NULL
    OBVIOUS
  <2>1. CASE o \in objects
    <3>1. o[1] \in SlabPages /\ cache[o[1]] # NULL
      BY <2>1 DEF SlubInv, SlubTypeOK, MarkedAreHeld
    <3> QED BY <1>1, <1>2, <3>1
  <2>2. CASE o = <<s, i>>
    BY <1>1, <1>2, <2>2
  <2> QED BY <2>1, <2>2
<1>6. potential_leaks' = Cardinality(objects')
  BY <1>3 DEF SlubInv, MarkedAreHeld
<1>7. bitmap' \in [SlabPages -> SUBSET (0 .. PGSIZE)]
  BY <1>1 DEF SlubInv, SlubTypeOK
<1>8. objects' \subseteq SlabPages \X (0 .. PGSIZE)
  BY <1>1 DEF SlubInv, SlubTypeOK
<1> QED BY <1>4, <1>5, <1>6, <1>7, <1>8 DEF MarkedAreHeld

(* A slab of which an object is given out has its page to itself.           *)
LEMMA StillApart ==
  ASSUME SlubInv, NEW c \in Caches, NEW s \in SlabPages, cache[s] \in {c, NULL},
         cache' = [cache EXCEPT ![s] = c], pmm_free' = pmm_free \ {s},
         \A b \in large : s \notin PageBlock(b[1], b[2]),
         NEW i \in 0 .. total_objects(c) - 1,
         objects' = objects \cup {<<s, i>>}, UNCHANGED large
  PROVE  Apart'
<1>1. cache'[s] = c /\ \A p \in SlabPages : p # s => cache'[p] = cache[p]
  BY DEF SlubInv, SlubTypeOK
<1>2. ASSUME NEW p \in SlabPages, cache'[p] # NULL PROVE p \notin pmm_free'
  BY <1>1, <1>2 DEF SlubInv, Apart
<1>3. ASSUME NEW b \in large', NEW p \in PageBlock(b[1], b[2])
      PROVE  p \in SlabPages /\ p \notin pmm_free' /\ cache'[p] = NULL
  BY <1>1 DEF SlubInv, Apart
<1>4. \A a, b \in large' : a # b => PageBlock(a[1], a[2]) \cap PageBlock(b[1], b[2]) = {}
  BY DEF SlubInv, Apart
<1>5. ASSUME NEW o \in objects'
      PROVE  SLAB_STRUCT + (o[2] + 1) * SLAB_CACHE_SIZES[cache'[o[1]]] <= objects_end(cache'[o[1]])
  <2>1. CASE o \in objects
    <3>1. o[1] \in SlabPages /\ cache[o[1]] # NULL
      BY <2>1 DEF SlubInv, SlubTypeOK, MarkedAreHeld
    <3>2. cache'[o[1]] = cache[o[1]]
      BY <1>1, <3>1
    <3> QED BY <2>1, <3>2 DEF SlubInv, Apart
  <2>2. CASE o = <<s, i>>
    <3>1. o[2] = i /\ cache'[o[1]] = c
      BY <1>1, <2>2
    <3> QED BY <3>1, ObjectsFit
  <2> QED BY <2>1, <2>2
<1> QED BY <1>2, <1>3, <1>4, <1>5 DEF Apart

(* Placed twice.                                                            *)
LEMMA PlacedAgain ==
  ASSUME NEW old, NEW lists, NEW new, NEW s, NEW k, NEW l,
         Placed(lists, old, s, k), Placed(new, lists, s, l)
  PROVE  Placed(new, old, s, l)
BY DEF Placed

(* A slab that was put on the partial list stays there or is full.          *)
LEMMA TakenLists ==
  ASSUME SlubInv, NEW c \in Caches, NEW s \in SlabPages, cache[s] \in {c, NULL},
         cache' = [cache EXCEPT ![s] = c],
         NEW count \in Nat \ {0}, count <= total_objects(c), total_objects(c) \in Nat,
         free_objects' = [free_objects EXCEPT ![s] = count - 1],
         NEW lists, Placed(lists, slabs[c], s, "partial"),
         slabs' = [slabs EXCEPT ![c] = IF count = 1 THEN MoveTo(lists, s, "full") ELSE lists]
  PROVE  OnRightList' /\ slabs' \in [Caches -> [Lists -> Seq(SlabPages)]]
<1>1. count - 1 \in Nat
  OBVIOUS
<1>2. CASE count = 1
  <2>1. "full" \in Lists /\ AreLists(lists)
    BY DEF Lists, Placed
  <2>2. Placed(MoveTo(lists, s, "full"), lists, s, "full")
    BY <2>1, MovedTo
  <2>3. Placed(MoveTo(lists, s, "full"), slabs[c], s, "full")
    BY <2>2, PlacedAgain
  <2>4. ListFor(count - 1, total_objects(c)) = "full"
    BY <1>2 DEF ListFor
  <2>5. slabs' = [slabs EXCEPT ![c] = MoveTo(lists, s, "full")]
    BY <1>2
  <2> QED BY <1>1, <2>3, <2>4, <2>5, ListsFollow
<1>3. CASE count # 1
  <2>1. ListFor(count - 1, total_objects(c)) = "partial"
    BY <1>3 DEF ListFor
  <2>2. slabs' = [slabs EXCEPT ![c] = lists]
    BY <1>3
  <2> QED BY <1>1, <2>1, <2>2, ListsFollow
<1> QED BY <1>2, <1>3

(* slub_alloc takes an object of a slab that is on the partial list by now. *)
LEMMA TakeStep ==
  ASSUME SlubInv, NEW c \in Caches, NEW s \in SlabPages, cache[s] \in {c, NULL},
         cache' = [cache EXCEPT ![s] = c], pmm_free' = pmm_free \ {s},
         \A b \in large : s \notin PageBlock(b[1], b[2]),
         NEW taken \in SUBSET (0 .. PGSIZE), IsFiniteSet(taken), NEW count \in Nat \ {0},
         count + Cardinality(taken) = total_objects(c),
         \A i \in 0 .. PGSIZE : i \in taken <=> <<s, i>> \in objects,
         NEW lists, Placed(lists, slabs[c], s, "partial"),
         TakeObject(c, lists, s, taken, count)
  PROVE  SlubInv'
<1> DEFINE t == total_objects(c)
           i == Min((0 .. t - 1) \ taken)
<1>1. t \in Nat \ {0} /\ t <= PGSIZE /\ Cardinality(taken) \in Nat /\ count <= t
  BY ObjectsFit, FS_CardinalityType
<1>2. i \in 0 .. t - 1 /\ i \notin taken
  <2>1. ASSUME 0 .. t - 1 \subseteq taken PROVE FALSE
    <3>1. Cardinality(0 .. t - 1) = t
      BY <1>1, FS_Interval
    <3>2. Cardinality(0 .. t - 1) <= Cardinality(taken)
      BY <2>1, FS_Subset
    <3> QED BY <1>1, <3>1, <3>2
  <2>2. (0 .. t - 1) \ taken # {} /\ (0 .. t - 1) \ taken \in SUBSET Nat
    BY <2>1
  <2> QED BY <2>2, MinIn
<1>3. /\ bitmap' = [bitmap EXCEPT ![s] = taken \cup {i}]
      /\ free_objects' = [free_objects EXCEPT ![s] = count - 1]
      /\ objects' = objects \cup {<<s, i>>}
      /\ slabs' = [slabs EXCEPT ![c] = IF count = 1 THEN MoveTo(lists, s, "full") ELSE lists]
      /\ potential_leaks' = potential_leaks + 1
      /\ UNCHANGED <<large, panicked, misread>>
  BY DEF TakeObject
<1> HIDE DEF i
<1>4. /\ MarkedAreHeld' /\ bitmap' \in [SlabPages -> SUBSET (0 .. PGSIZE)]
      /\ objects' \subseteq SlabPages \X (0 .. PGSIZE)
  BY <1>2, <1>3, OneMoreHeld
<1>5. Apart'
  BY <1>2, <1>3, StillApart
<1>6. OnRightList' /\ slabs' \in [Caches -> [Lists -> Seq(SlabPages)]]
  BY <1>1, <1>3, TakenLists
<1>7. SlubTypeOK'
  <2>1. pmm_free' \subseteq SlabPages /\ cache' \in [SlabPages -> Caches \cup {NULL}]
    BY DEF SlubInv, SlubTypeOK
  <2>2. free_objects' \in [SlabPages -> Nat]
    BY <1>3 DEF SlubInv, SlubTypeOK
  <2>3. /\ large' \subseteq SlabPages \X (Nat \ {0}) /\ potential_leaks' \in Nat
        /\ panicked' \in BOOLEAN /\ misread' \in BOOLEAN
    BY <1>3 DEF SlubInv, SlubTypeOK
  <2> QED BY <1>4, <1>6, <2>1, <2>2, <2>3 DEF SlubTypeOK
<1> QED BY <1>4, <1>5, <1>6, <1>7 DEF SlubInv

(* slub_alloc, from a slab that is partial, from one that is free, and from *)
(* a new one.                                                               *)
LEMMA AllocKeeps ==
  ASSUME SlubInv, NEW c \in Caches, AllocPartial(c) \/ AllocFree(c) \/ AllocNew(c)
  PROVE  SlubInv'
<1>0. /\ {"partial", "free"} \subseteq Lists /\ AreLists(slabs[c])
      /\ total_objects(c) \in Nat \ {0} /\ total_objects(c) <= PGSIZE
      /\ c # NULL /\ cache \in [SlabPages -> Caches \cup {NULL}]
  BY SlabsOn, ObjectsFit, CacheIs DEF Lists, SlubInv, SlubTypeOK
<1>1. ASSUME NEW s \in SlabPages, cache[s] = c, free_objects[s] # 0,
             UNCHANGED <<pmm_free, cache>>,
             NEW lists, Placed(lists, slabs[c], s, "partial"),
             TakeObject(c, lists, s, bitmap[s], free_objects[s])
      PROVE  SlubInv'
  <2>1. /\ s \notin pmm_free /\ free_objects[s] \in Nat \ {0}
        /\ bitmap[s] \in SUBSET (0 .. PGSIZE) /\ IsFiniteSet(bitmap[s])
        /\ free_objects[s] + Cardinality(bitmap[s]) = total_objects(c)
        /\ \A i \in 0 .. PGSIZE : i \in bitmap[s] <=> <<s, i>> \in objects
        /\ \A b \in large : s \notin PageBlock(b[1], b[2])
    BY <1>0, <1>1, OneSlab
  <2>2. cache' = [cache EXCEPT ![s] = c] /\ pmm_free' = pmm_free \ {s}
    BY <1>0, <1>1, <2>1
  <2>3. cache[s] \in {c, NULL}
    BY <1>1
  <2> QED BY <1>1, <2>1, <2>2, <2>3, TakeStep
<1>2. CASE AllocPartial(c)
  <2> DEFINE s == Head(slabs[c].partial)
  <2>1. /\ slabs[c].partial # <<>> /\ UNCHANGED <<pmm_free, cache>>
        /\ TakeObject(c, slabs[c], s, bitmap[s], free_objects[s])
    BY <1>2 DEF AllocPartial
  <2>2. slabs[c].partial \in Seq(SlabPages)
    BY <1>0 DEF AreLists
  <2>3. s \in Range(slabs[c].partial)
    BY <2>1, <2>2 DEF Range
  <2> HIDE DEF s
  <2>4. /\ s \in SlabPages /\ cache[s] = c
        /\ ListFor(free_objects[s], total_objects(c)) = "partial"
    BY <1>0, <2>3, SlabsOn
  <2>5. free_objects[s] # 0
    BY <2>4 DEF ListFor
  <2>6. Placed(slabs[c], slabs[c], s, "partial")
    <3>1. \A k \in Lists : s \in Range(slabs[c][k]) => k = "partial"
      BY <2>4, SlabsOn
    <3>2. \A k \in Lists : Range(slabs[c][k]) =
             (Range(slabs[c][k]) \ {s}) \cup (IF k = "partial" THEN {s} ELSE {})
      BY <2>3, <3>1
    <3> QED BY <1>0, <3>2 DEF Placed
  <2> QED BY <1>1, <2>1, <2>4, <2>5, <2>6
<1>3. CASE AllocFree(c)
  <2> DEFINE s == Head(slabs[c].free)
  <2>1. /\ slabs[c].free # <<>> /\ UNCHANGED <<pmm_free, cache>>
        /\ TakeObject(c, MoveTo(slabs[c], s, "partial"), s, bitmap[s], free_objects[s])
    BY <1>3 DEF AllocFree
  <2>2. slabs[c].free \in Seq(SlabPages)
    BY <1>0 DEF AreLists
  <2>3. s \in Range(slabs[c].free)
    BY <2>1, <2>2 DEF Range
  <2> HIDE DEF s
  <2>4. /\ s \in SlabPages /\ cache[s] = c
        /\ ListFor(free_objects[s], total_objects(c)) = "free"
    BY <1>0, <2>3, SlabsOn
  <2>5. free_objects[s] # 0
    BY <2>4 DEF ListFor
  <2>6. Placed(MoveTo(slabs[c], s, "partial"), slabs[c], s, "partial")
    BY <1>0, <2>4, MovedTo
  <2> QED BY <1>1, <2>1, <2>4, <2>5, <2>6
<1>4. CASE AllocNew(c)
  <2>1. PICK s \in FreeRuns(1) :
           /\ pmm_free' = pmm_free \ {s} /\ cache' = [cache EXCEPT ![s] = c]
           /\ TakeObject(c, MoveTo(slabs[c], s, "partial"), s, {}, total_objects(c))
    BY <1>4 DEF AllocNew
  <2>2. s \in SlabPages /\ s \in PageBlock(s, 1) /\ PageBlock(s, 1) \subseteq pmm_free
    BY SlubAssumption DEF FreeRuns, PageBlock, SlabPages
  <2>3. cache[s] = NULL /\ \A b \in large : s \notin PageBlock(b[1], b[2])
    BY <2>2 DEF SlubInv, Apart
  <2>4. \A i \in 0 .. PGSIZE : <<s, i>> \notin objects
    BY <2>3 DEF SlubInv, MarkedAreHeld
  <2>5. /\ IsFiniteSet({}) /\ {} \in SUBSET (0 .. PGSIZE)
        /\ total_objects(c) + Cardinality({}) = total_objects(c)
        /\ \A i \in 0 .. PGSIZE : i \in {} <=> <<s, i>> \in objects
    BY <1>0, <2>4, FS_EmptySet
  <2>6. Placed(MoveTo(slabs[c], s, "partial"), slabs[c], s, "partial")
    BY <1>0, <2>2, MovedTo
  <2>7. cache[s] \in {c, NULL}
    BY <2>3
  <2> QED BY <1>0, <2>1, <2>2, <2>3, <2>5, <2>6, <2>7, TakeStep
<1> QED BY <1>2, <1>3, <1>4

(* slub_alloc and slub_alloc_pages of whole pages.                          *)
LEMMA AllocPagesKeeps ==
  ASSUME SlubInv, NEW k \in Nat \ {0}, slub_alloc_pages(k)
  PROVE  SlubInv'
<1>1. PICK at \in FreeRuns(k) :
         /\ pmm_free' = pmm_free \ PageBlock(at, k) /\ large' = large \cup {<<at, k>>}
  BY DEF slub_alloc_pages
<1>2. /\ UNCHANGED <<slabs, cache, bitmap, free_objects, objects, potential_leaks>>
      /\ UNCHANGED <<panicked, misread>>
  BY DEF slub_alloc_pages
<1>3. at \in SlabPages /\ PageBlock(at, k) \subseteq pmm_free
  BY DEF FreeRuns
<1>4. SlubTypeOK'
  BY <1>1, <1>2, <1>3 DEF SlubInv, SlubTypeOK
<1>5. OnRightList'
  BY <1>2 DEF SlubInv, OnRightList
<1>6. MarkedAreHeld'
  BY <1>2 DEF SlubInv, MarkedAreHeld
<1>7. Apart'
  <2>1. \A p \in PageBlock(at, k) : p \in SlabPages /\ p \in pmm_free /\ cache[p] = NULL
    BY <1>3 DEF SlubInv, SlubTypeOK, Apart
  <2>2. \A p \in SlabPages : cache'[p] # NULL => p \notin pmm_free'
    BY <1>1, <1>2 DEF SlubInv, Apart
  <2>3. \A b \in large : \A p \in PageBlock(b[1], b[2]) :
           p \in SlabPages /\ p \notin pmm_free /\ cache[p] = NULL
    BY DEF SlubInv, Apart
  <2>4. <<at, k>>[1] = at /\ <<at, k>>[2] = k
    OBVIOUS
  <2>5. \A b \in large' : \A p \in PageBlock(b[1], b[2]) :
           p \in SlabPages /\ p \notin pmm_free' /\ cache'[p] = NULL
    BY <1>1, <1>2, <2>1, <2>3, <2>4
  <2>6. \A b \in large : PageBlock(b[1], b[2]) \cap PageBlock(at, k) = {}
    BY <2>1, <2>3
  <2>7. \A a, b \in large : a # b => PageBlock(a[1], a[2]) \cap PageBlock(b[1], b[2]) = {}
    BY DEF SlubInv, Apart
  <2>8. \A a, b \in large' : a # b => PageBlock(a[1], a[2]) \cap PageBlock(b[1], b[2]) = {}
    BY <1>1, <2>4, <2>6, <2>7
  <2>9. \A o \in objects' : SLAB_STRUCT + (o[2] + 1) * SLAB_CACHE_SIZES[cache'[o[1]]]
                               <= objects_end(cache'[o[1]])
    BY <1>2 DEF SlubInv, Apart
  <2> QED BY <2>2, <2>5, <2>8, <2>9 DEF Apart
<1> QED BY <1>4, <1>5, <1>6, <1>7 DEF SlubInv

(* Pages of a block that its holder gives back.                             *)
LEMMA FreePagesKeeps ==
  ASSUME SlubInv, NEW b \in large, NEW k \in Nat \ {0}, k <= b[2], slub_free_pages(b, k)
  PROVE  SlubInv'
<1>1. /\ pmm_free' = pmm_free \cup PageBlock(b[1], k) /\ large' = large \ {b}
      /\ UNCHANGED <<slabs, cache, bitmap, free_objects, objects, potential_leaks>>
      /\ UNCHANGED <<panicked, misread>>
  BY DEF slub_free_pages
<1>2. b[1] \in SlabPages /\ b[1] \in Int /\ b[2] \in Nat
  BY SlubAssumption DEF SlubInv, SlubTypeOK, SlabPages
<1>3. PageBlock(b[1], k) \subseteq PageBlock(b[1], b[2])
  BY <1>2 DEF PageBlock
<1>4. \A p \in PageBlock(b[1], k) : p \in SlabPages /\ cache[p] = NULL
  BY <1>3 DEF SlubInv, Apart
<1>5. SlubTypeOK'
  BY <1>1, <1>4 DEF SlubInv, SlubTypeOK
<1>6. OnRightList'
  BY <1>1 DEF SlubInv, OnRightList
<1>7. MarkedAreHeld'
  BY <1>1 DEF SlubInv, MarkedAreHeld
<1>8. Apart'
  <2>1. \A p \in SlabPages : cache'[p] # NULL => p \notin pmm_free'
    BY <1>1, <1>4 DEF SlubInv, Apart
  <2>2. \A a \in large' : a \in large /\ a # b
    BY <1>1
  <2>3. \A x, y \in large : x # y => PageBlock(x[1], x[2]) \cap PageBlock(y[1], y[2]) = {}
    BY DEF SlubInv, Apart
  <2>4. \A a \in large' : PageBlock(a[1], a[2]) \cap PageBlock(b[1], k) = {}
    BY <1>3, <2>2, <2>3
  <2>5. \A a \in large' : \A p \in PageBlock(a[1], a[2]) :
           p \in SlabPages /\ p \notin pmm_free /\ cache[p] = NULL
    BY <2>2 DEF SlubInv, Apart
  <2>6. \A a \in large' : \A p \in PageBlock(a[1], a[2]) :
           p \in SlabPages /\ p \notin pmm_free' /\ cache'[p] = NULL
    BY <1>1, <2>4, <2>5
  <2>7. \A x, y \in large' : x # y => PageBlock(x[1], x[2]) \cap PageBlock(y[1], y[2]) = {}
    BY <2>2, <2>3
  <2>8. \A o \in objects' : SLAB_STRUCT + (o[2] + 1) * SLAB_CACHE_SIZES[cache'[o[1]]]
                               <= objects_end(cache'[o[1]])
    BY <1>1 DEF SlubInv, Apart
  <2> QED BY <2>1, <2>6, <2>7, <2>8 DEF Apart
<1> QED BY <1>5, <1>6, <1>7, <1>8 DEF SlubInv

(* An object is given back: its mark goes, and one more is free.            *)
LEMMA OneLessHeld ==
  ASSUME SlubInv, NEW s \in SlabPages, cache[s] # NULL, NEW i \in bitmap[s], slub_free(s, i)
  PROVE  MarkedAreHeld'
<1>1. /\ bitmap' = [bitmap EXCEPT ![s] = @ \ {i}]
      /\ free_objects' = [free_objects EXCEPT ![s] = free_objects[s] + 1]
      /\ objects' = objects \ {<<s, i>>} /\ potential_leaks' = potential_leaks - 1
      /\ UNCHANGED cache
  BY DEF slub_free
<1>2. /\ free_objects[s] \in Nat /\ bitmap[s] \in SUBSET (0 .. PGSIZE)
      /\ IsFiniteSet(bitmap[s]) /\ Cardinality(bitmap[s]) \in Nat
      /\ free_objects[s] + Cardinality(bitmap[s]) = total_objects(cache[s])
      /\ \A k \in 0 .. PGSIZE : k \in bitmap[s] <=> <<s, k>> \in objects
  BY OneSlab
<1>3. <<s, i>> \in objects /\ IsFiniteSet(objects) /\ Cardinality(objects) \in Nat
  BY <1>2, FiniteData, FS_CardinalityType DEF SlubInv
<1>4. /\ Cardinality(objects') = Cardinality(objects) - 1
      /\ Cardinality(bitmap[s] \ {i}) = Cardinality(bitmap[s]) - 1
  BY <1>1, <1>2, <1>3, FS_RemoveElement
<1>5. /\ bitmap'[s] = bitmap[s] \ {i} /\ \A p \in SlabPages : p # s => bitmap'[p] = bitmap[p]
      /\ free_objects'[s] = free_objects[s] + 1
      /\ \A p \in SlabPages : p # s => free_objects'[p] = free_objects[p]
      /\ \A p \in SlabPages, k \in 0 .. PGSIZE : <<p, k>> \in objects' <=>
             <<p, k>> \in objects /\ ~ (p = s /\ k = i)
  BY <1>1 DEF SlubInv, SlubTypeOK
<1>6. ASSUME NEW p \in SlabPages, cache'[p] # NULL
      PROVE  /\ \A k \in 0 .. PGSIZE : k \in bitmap'[p] <=> <<p, k>> \in objects'
             /\ free_objects'[p] + Cardinality(bitmap'[p]) = total_objects(cache'[p])
  <2>1. CASE p = s
    <3>1. \A k \in 0 .. PGSIZE : k \in bitmap'[p] <=> <<p, k>> \in objects'
      BY <1>2, <1>5, <2>1
    <3>2. (free_objects[s] + 1) + (Cardinality(bitmap[s]) - 1) = total_objects(cache[s])
      BY <1>2
    <3> QED BY <1>1, <1>4, <1>5, <2>1, <3>1, <3>2
  <2>2. CASE p # s
    <3>1. cache'[p] = cache[p] /\ bitmap'[p] = bitmap[p] /\ free_objects'[p] = free_objects[p]
      BY <1>1, <1>5, <2>2
    <3>2. \A k \in 0 .. PGSIZE : <<p, k>> \in objects' <=> <<p, k>> \in objects
      BY <1>5, <2>2
    <3>3. /\ \A k \in 0 .. PGSIZE : k \in bitmap[p] <=> <<p, k>> \in objects
          /\ free_objects[p] + Cardinality(bitmap[p]) = total_objects(cache[p])
      BY <1>6, <3>1 DEF SlubInv, MarkedAreHeld
    <3> QED BY <3>1, <3>2, <3>3
  <2> QED BY <2>1, <2>2
<1>7. \A o \in objects' : cache'[o[1]] # NULL
  BY <1>1 DEF SlubInv, MarkedAreHeld
<1>8. potential_leaks' = Cardinality(objects')
  BY <1>1, <1>4 DEF SlubInv, MarkedAreHeld
<1> QED BY <1>6, <1>7, <1>8 DEF MarkedAreHeld

(* slub_free of an object that is taken.                                    *)
LEMMA FreeKeeps ==
  ASSUME SlubInv, NEW s \in SlabPages, cache[s] # NULL, NEW i, slub_free(s, i)
  PROVE  SlubInv'
<1> DEFINE c == cache[s]
           left == free_objects[s] + 1
           l == IF left = total_objects(c) THEN "free" ELSE "partial"
<1>1. /\ i \in bitmap[s]
      /\ bitmap' = [bitmap EXCEPT ![s] = @ \ {i}]
      /\ free_objects' = [free_objects EXCEPT ![s] = left]
      /\ slabs' = [slabs EXCEPT ![c] = MoveTo(@, s, l)]
      /\ objects' = objects \ {<<s, i>>} /\ potential_leaks' = potential_leaks - 1
      /\ UNCHANGED <<pmm_free, cache, large, panicked, misread>>
  BY DEF slub_free
<1>2. /\ c \in Caches /\ free_objects[s] \in Nat /\ bitmap[s] \in SUBSET (0 .. PGSIZE)
      /\ IsFiniteSet(bitmap[s]) /\ Cardinality(bitmap[s]) \in Nat
      /\ free_objects[s] + Cardinality(bitmap[s]) = total_objects(c)
      /\ <<s, i>> \in objects
  BY <1>1, OneSlab
<1>3. MarkedAreHeld'
  BY <1>1, OneLessHeld
<1>4. OnRightList' /\ slabs' \in [Caches -> [Lists -> Seq(SlabPages)]]
  <2>1. l \in Lists /\ AreLists(slabs[c])
    BY <1>2, SlabsOn DEF Lists
  <2>2. left \in Nat /\ left # 0
    BY <1>2
  <2>3. l = ListFor(left, total_objects(c))
    BY <2>2 DEF ListFor
  <2>4. cache' = [cache EXCEPT ![s] = c] /\ cache[s] \in {c, NULL}
    BY <1>1 DEF SlubInv, SlubTypeOK
  <2>5. free_objects' = [free_objects EXCEPT ![s] = left]
    BY <1>1
  <2>6. slabs' = [slabs EXCEPT ![c] = MoveTo(slabs[c], s, l)]
    BY <1>1
  <2> HIDE DEF l, left, c
  <2>7. Placed(MoveTo(slabs[c], s, l), slabs[c], s, l)
    BY <2>1, MovedTo
  <2> QED BY <1>2, <2>2, <2>3, <2>4, <2>5, <2>6, <2>7, ListsFollow
<1>5. SlubTypeOK'
  <2>1. bitmap' \in [SlabPages -> SUBSET (0 .. PGSIZE)]
    BY <1>1 DEF SlubInv, SlubTypeOK
  <2>2. free_objects' \in [SlabPages -> Nat]
    BY <1>1, <1>2 DEF SlubInv, SlubTypeOK
  <2>3. objects' \subseteq SlabPages \X (0 .. PGSIZE)
    BY <1>1 DEF SlubInv, SlubTypeOK
  <2>4. potential_leaks' \in Nat
    <3>1. IsFiniteSet(objects')
      BY <1>1, FiniteData, FS_RemoveElement DEF SlubInv
    <3>2. Cardinality(objects') \in Nat
      BY <3>1, FS_CardinalityType
    <3> QED BY <1>3, <3>2 DEF MarkedAreHeld
  <2>5. /\ pmm_free' \subseteq SlabPages /\ cache' \in [SlabPages -> Caches \cup {NULL}]
        /\ large' \subseteq SlabPages \X (Nat \ {0})
        /\ panicked' \in BOOLEAN /\ misread' \in BOOLEAN
    BY <1>1 DEF SlubInv, SlubTypeOK
  <2> QED BY <1>4, <2>1, <2>2, <2>3, <2>4, <2>5 DEF SlubTypeOK
<1>6. Apart'
  BY <1>1 DEF SlubInv, Apart
<1> QED BY <1>3, <1>4, <1>5, <1>6 DEF SlubInv

(* The invariant leaves panicked and misread free.                          *)
LEMMA AllUnchanged ==
  ASSUME SlubInv, panicked' \in BOOLEAN, misread' \in BOOLEAN,
         UNCHANGED <<pmm_free, slabs, cache, bitmap, free_objects, objects, large,
                     potential_leaks>>
  PROVE  SlubInv'
<1>1. SlubTypeOK'
  BY DEF SlubInv, SlubTypeOK
<1>2. OnRightList'
  BY DEF SlubInv, OnRightList
<1>3. MarkedAreHeld'
  BY DEF SlubInv, MarkedAreHeld
<1>4. Apart'
  BY DEF SlubInv, Apart
<1> QED BY <1>1, <1>2, <1>3, <1>4 DEF SlubInv

(* The two panics change nothing else.                                      *)
LEMMA PanicKeeps ==
  ASSUME SlubInv, NEW s, NEW i, slub_free_panics(s, i)
  PROVE  SlubInv'
<1>1. misread \in BOOLEAN
  BY DEF SlubInv, SlubTypeOK
<1> QED BY <1>1, AllUnchanged DEF slub_free_panics

(* Where the data of a caller is taken for a slab the model ends.           *)
LEMMA MisreadKeeps ==
  ASSUME SlubInv, NEW b, slub_free_misreads(b)
  PROVE  SlubInv'
<1>1. panicked \in BOOLEAN
  BY DEF SlubInv, SlubTypeOK
<1> QED BY <1>1, AllUnchanged DEF slub_free_misreads

(* Rounding up to whole pages gives at least one.                           *)
LEMMA WholePages ==
  ASSUME NEW size \in Requests \ {0}
  PROVE  (size + PGSIZE - 1) \div PGSIZE \in Nat \ {0}
<1>1. size \in Nat \ {0} /\ PGSIZE \in Nat \ {0}
  BY SlubAssumption
<1>2. ASSUME NEW x \in Nat, NEW k \in Nat \ {0}, x >= k
      PROVE  x \div k \in Nat /\ x \div k # 0
  BY <1>2, Z3
<1>3. size + PGSIZE - 1 \in Nat /\ size + PGSIZE - 1 >= PGSIZE
  BY <1>1
<1> QED BY <1>1, <1>2, <1>3

(* Of the caches that are large enough, slub_alloc takes one.               *)
LEMMA SuitableIs ==
  ASSUME NEW size, Suitable(size) # {}
  PROVE  Min(Suitable(size)) \in Caches
<1>1. Suitable(size) \in SUBSET Nat /\ Suitable(size) \subseteq Caches
  BY CacheIs DEF Suitable
<1> QED BY <1>1, MinIn

(* Every call keeps the slabs in order.                                     *)
LEMMA SlubStep == SlubInv /\ [SlubNext]_slubvars => SlubInv'
<1> SUFFICES ASSUME SlubInv, [SlubNext]_slubvars PROVE SlubInv'
  OBVIOUS
<1>1. CASE slub_alloc
  <2>1. PICK size \in Requests \ {0} :
           IF Suitable(size) = {}
           THEN slub_alloc_pages((size + PGSIZE - 1) \div PGSIZE)
           ELSE LET c == Min(Suitable(size))
                IN  AllocPartial(c) \/ AllocFree(c) \/ AllocNew(c)
    BY <1>1 DEF slub_alloc
  <2>2. CASE Suitable(size) = {}
    BY <2>1, <2>2, WholePages, AllocPagesKeeps
  <2>3. CASE Suitable(size) # {}
    BY <2>1, <2>3, SuitableIs, AllocKeeps
  <2> QED BY <2>2, <2>3
<1>2. CASE FreeObject
  BY <1>2, FreeKeeps, PanicKeeps DEF FreeObject
<1>3. CASE FreeLarge \/ FreePages
  <2>1. \A b \in large : b[2] \in Nat \ {0} /\ 1 \in Nat \ {0} /\ 1 <= b[2] /\ b[2] <= b[2]
    BY DEF SlubInv, SlubTypeOK
  <2> QED BY <1>3, <2>1, FreePagesKeeps, MisreadKeeps DEF FreeLarge, FreePages
<1>4. CASE UNCHANGED slubvars
  <2>1. panicked \in BOOLEAN /\ misread \in BOOLEAN
    BY DEF SlubInv, SlubTypeOK
  <2> QED BY <1>4, <2>1, AllUnchanged DEF slubvars
<1> QED BY <1>1, <1>2, <1>3, <1>4 DEF SlubNext

(* There is nothing in the slabs at first.                                  *)
LEMMA SlubBegins == SlubInit => SlubInv
<1> SUFFICES ASSUME SlubInit PROVE SlubInv
  OBVIOUS
<1>1. /\ pmm_free = SlabPages /\ objects = {} /\ large = {} /\ potential_leaks = 0
      /\ \A p \in SlabPages : cache[p] = NULL
      /\ \A c \in Caches, l \in Lists : slabs[c][l] = <<>>
  BY DEF SlubInit
<1>2. SlubTypeOK
  <2>1. <<>> \in Seq(SlabPages)
    OBVIOUS
  <2>2. slabs \in [Caches -> [Lists -> Seq(SlabPages)]]
    BY <2>1 DEF SlubInit
  <2>3. /\ cache \in [SlabPages -> Caches \cup {NULL}]
        /\ bitmap \in [SlabPages -> SUBSET (0 .. PGSIZE)]
        /\ free_objects \in [SlabPages -> Nat]
        /\ panicked \in BOOLEAN /\ misread \in BOOLEAN
    BY DEF SlubInit
  <2> QED BY <1>1, <2>2, <2>3 DEF SlubTypeOK
<1>3. OnRightList
  BY <1>1, CacheIs DEF OnRightList, IsInjective, Range
<1>4. MarkedAreHeld
  BY <1>1, FS_EmptySet DEF MarkedAreHeld
<1>5. Apart
  BY <1>1 DEF Apart
<1> QED BY <1>2, <1>3, <1>4, <1>5 DEF SlubInv

(* Over every sequence of calls of slub_alloc, slub_free, slub_alloc_pages   *)
(* and slub_free_pages, up to a slub_free of a page block that takes what    *)
(* its holder has written for a slab (slub_pmm.c:224), the slabs are on the  *)
(* right lists, the bitmaps mark exactly what callers hold, and slabs,       *)
(* blocks and free pages have no page in common.                             *)
THEOREM SlubInvariant == SlubSpec => []SlubInv
BY SlubBegins, SlubStep, PTL DEF SlubSpec
=============================================================================
