-------------------------- MODULE CodecCacheProofs --------------------------
(***************************************************************************)
(* For any number of goroutines, maps, types and fields, whoever calls     *)
(* ZeroCopy on a decoder it got from a cache: a caller that asked for      *)
(* zero-copy strings gets them at every field.  And every use of an        *)
(* instance on which no caller has called ZeroCopy is the use its own      *)
(* caller asked for.                                                       *)
(***************************************************************************)
EXTENDS CodecCache, SequenceTheorems, TLAPS

\* The instances of the zero-copy map have the flag; the others have it only
\* where a caller's ZeroCopy set it.
IsZeroCopy(k) == k.map = "structDecoderZeroCopyCache"
Clean(i) == i \notin turned
Suits(flag, wanted, clean) ==
  /\ wanted = TRUE => flag = TRUE
  /\ clean => flag = wanted

\* What a complete instance of a map looks like.
Complete(i, k) == plan[i] = NumFields /\ Suits(zeroCopy[i], IsZeroCopy(k), Clean(i))

\* An instance under construction is its builder's alone.
Private(g) ==
  /\ \A k \in Keys : Cached(k) # inst[g]
  /\ \A h \in G \ {g} : inst[h] # inst[g]

Good(g) ==
  /\ pc[g] \in {"idle", "load"} => inst[g] = None /\ result[g] = <<>>
  /\ pc[g] \notin {"idle", "load"} => inst[g] \in Instances
  /\ pc[g] # "idle" => Suits(asked[g], IsZeroCopy(key[g]), Clean(inst[g]))
  /\ pc[g] \in {"load", "build", "store"} => asked[g] = IsZeroCopy(key[g])
  /\ pc[g] \in {"build", "store"} => Private(g) /\ result[g] = <<>>
  /\ pc[g] = "build" => zeroCopy[inst[g]] = FALSE
  /\ pc[g] \in {"store", "have", "use"} => Complete(inst[g], key[g])
  /\ pc[g] \in {"have", "use"} /\ asked[g] = TRUE => zeroCopy[inst[g]] = TRUE
  /\ pc[g] = "have" /\ result[g] # <<>> => Len(result[g]) = NumFields
  /\ \A n \in 1..Len(result[g]) : Suits(result[g][n], asked[g], Clean(inst[g]))

CacheOK == \A k \in Keys : Cached(k) # None => Complete(Cached(k), k)

IInv == TypeOK /\ CacheOK /\ \A g \in G : Good(g)

\* The flag of a shared instance is never reset, and set by ZeroCopy only.
KeepsFlag(i) ==
  /\ Clean(i)' => Clean(i)
  /\ zeroCopy'[i] = zeroCopy[i] \/ (~Clean(i)' /\ zeroCopy'[i] = TRUE)

\* A step that leaves the locals of h alone leaves h well off, whatever it does
\* to instances h cannot see.
Untouched(h) ==
  /\ pc'[h] = pc[h] /\ key'[h] = key[h] /\ asked'[h] = asked[h]
  /\ inst'[h] = inst[h] /\ result'[h] = result[h]
  /\ inst[h] # None => /\ plan'[inst[h]] = plan[inst[h]]
                       /\ KeepsFlag(inst[h])
                       /\ pc[h] = "build" => zeroCopy'[inst[h]] = zeroCopy[inst[h]]

\* What a step leaves alone of a goroutine stays good.
LEMMA GoodStays ==
  ASSUME TypeOK, NEW h \in G, Good(h), Untouched(h),
         pc[h] \in {"build", "store"} => Private(h)'
  PROVE  Good(h)'
<1>1. IsZeroCopy(key[h])' = IsZeroCopy(key[h])
  BY DEF Untouched, IsZeroCopy
<1>2. pc[h] \notin {"idle", "load"} => inst[h] # None
  BY NoneAssumption DEF Good
<1>3. pc[h] \in {"store", "have", "use"} => Complete(inst[h], key[h])'
  BY <1>1, <1>2 DEF Good, Complete, Suits, Clean, Untouched, KeepsFlag
<1>4. pc[h] = "build" => zeroCopy'[inst'[h]] = FALSE
  BY <1>2 DEF Good, Untouched
<1>5. pc[h] # "idle" => Suits(asked[h], IsZeroCopy(key[h]), Clean(inst[h]))'
  <2>1. CASE inst[h] = None
    BY <1>1, <1>2, <2>1 DEF Good, Suits, Untouched
  <2>2. CASE inst[h] # None
    BY <1>1, <2>2 DEF Good, Suits, Untouched, KeepsFlag, Clean
  <2>3. QED  BY <2>1, <2>2
<1>6. pc[h] \in {"have", "use"} /\ asked[h] = TRUE => zeroCopy'[inst'[h]] = TRUE
  BY <1>2 DEF Good, Untouched, KeepsFlag
<1>7. \A n \in 1..Len(result'[h]) : Suits(result'[h][n], asked'[h], Clean(inst[h])')
  <2>1. CASE inst[h] = None
    BY <1>2, <2>1 DEF Good, Untouched
  <2>2. CASE inst[h] # None
    BY <2>2 DEF Good, Suits, Untouched, KeepsFlag, Clean
  <2>3. QED  BY <2>1, <2>2
<1>8. QED
  BY <1>1, <1>3, <1>4, <1>5, <1>6, <1>7 DEF Good, Untouched, Suits

\* A key names a place in one of the maps.
LEMMA KeyCached ==
  ASSUME TypeOK, NEW k \in Keys
  PROVE  Cached(k) \in Instances \cup {None} /\ k.map \in Maps /\ k.type \in Types
<1>1. k.map \in Maps /\ k.type \in Types
  BY DEF Keys
<1>2. QED  BY <1>1 DEF TypeOK, Cached

\* The invariant holds before anybody has asked.
LEMMA InitInv == Init => IInv
<1> SUFFICES ASSUME Init PROVE IInv
  OBVIOUS
<1>1. TypeOK
  <2>1. (CHOOSE k \in Keys : TRUE) \in Keys
    <3>1. PICK m \in Maps, t \in Types : TRUE
      BY MapsAssumption, TypesAssumption
    <3>2. [map |-> m, type |-> t] \in Keys
      BY DEF Keys
    <3>3. QED  BY <3>2, Zenon
  <2>2. <<>> \in Seq(BOOLEAN) /\ 0 \in 0..NumFields
    BY FieldsAssumption
  <2>3. QED  BY <2>1, <2>2 DEF Init, TypeOK
<1>2. CacheOK
  BY DEF Init, CacheOK, Cached, Keys
<1>3. ASSUME NEW g \in G PROVE Good(g)
  BY DEF Init, Good
<1>4. QED  BY <1>1, <1>2, <1>3 DEF IInv

-----------------------------------------------------------------------------
(* Every step preserves the invariant.                                     *)

\* What a step of goroutine g has to establish.
Kept(g) ==
  /\ TypeOK' /\ CacheOK'
  /\ \A h \in G \ {g} : Untouched(h) /\ (pc[h] \in {"build", "store"} => Private(h)')
  /\ Good(g)'

\* Steps that change no instance and no map: nobody else's business.
LEMMA QuietStep ==
  ASSUME IInv, NEW g \in G, UNCHANGED <<cached, plan, zeroCopy, turned>>, TypeOK', Good(g)',
         \A h \in G \ {g} : /\ pc'[h] = pc[h] /\ key'[h] = key[h] /\ asked'[h] = asked[h]
                            /\ inst'[h] = inst[h] /\ result'[h] = result[h],
         \/ inst'[g] = inst[g]
         \/ inst'[g] = None
         \/ \E k \in Keys : inst'[g] = Cached(k)
  PROVE  Kept(g)
<1> USE DEF IInv
<1>1. CacheOK'
  BY DEF CacheOK, Complete, Suits, IsZeroCopy, Clean, Cached
<1>2. \A h \in G \ {g} : Untouched(h)
  BY DEF Untouched, KeepsFlag, Clean
<1>3. ASSUME NEW h \in G \ {g}, pc[h] \in {"build", "store"} PROVE Private(h)'
  <2>1. Private(h) /\ inst[h] # None /\ inst'[h] = inst[h]
    BY <1>3, NoneAssumption DEF Good
  <2>2. \A k \in Keys : Cached(k)' = Cached(k)
    BY DEF Cached
  <2>3. inst'[g] # inst[h]
    BY <2>1 DEF Private
  <2>4. \A f \in G \ {h} : inst'[f] # inst[h]
    BY <2>1, <2>3 DEF Private
  <2>5. QED  BY <2>1, <2>2, <2>4 DEF Private
<1>4. QED  BY <1>1, <1>2, <1>3 DEF Kept

\* One lemma for each action: a look-up begins.
LEMMA AskInv ==
  ASSUME IInv, NEW g \in G, Ask(g)
  PROVE  Kept(g)
<1> USE DEF IInv
<1>1. PICK k \in Keys : /\ key' = [key EXCEPT ![g] = k]
                        /\ asked' = [asked EXCEPT ![g] = IsZeroCopy(k)]
  BY DEF Ask, IsZeroCopy
<1>2. TypeOK'
  BY <1>1 DEF TypeOK, Ask, Go, IsZeroCopy
<1>3. Good(g)'
  <2>1. pc'[g] = "load" /\ inst'[g] = None /\ result'[g] = <<>>
    BY DEF Ask, Go, TypeOK, Good
  <2>2. asked'[g] = IsZeroCopy(key'[g])
    BY <1>1 DEF TypeOK
  <2>3. Suits(asked[g], IsZeroCopy(key[g]), Clean(inst[g]))'
    BY <2>2 DEF Suits, IsZeroCopy
  <2>4. QED  BY <2>1, <2>2, <2>3 DEF Good, IsZeroCopy
<1>4. QED  BY <1>1, <1>2, <1>3, QuietStep DEF Ask, Go, TypeOK

\* A look-up that finds an instance: the map holds complete ones only.
LEMMA HitInv ==
  ASSUME IInv, NEW g \in G, Hit(g)
  PROVE  Kept(g)
<1> USE DEF IInv
<1>1. key[g] \in Keys /\ Cached(key[g]) \in Instances /\ Complete(Cached(key[g]), key[g])
  BY KeyCached DEF Hit, TypeOK, CacheOK
<1>2. TypeOK'
  BY <1>1 DEF TypeOK, Hit, Go
<1>3. Good(g)'
  <2>1. /\ pc'[g] = "have" /\ inst'[g] = Cached(key[g]) /\ result'[g] = <<>>
        /\ key' = key /\ plan' = plan /\ zeroCopy' = zeroCopy
        /\ asked'[g] = IsZeroCopy(key[g]) /\ turned' = turned
    BY DEF Hit, Go, TypeOK, Good
  <2>2. Complete(inst[g], key[g])' /\ Suits(asked[g], IsZeroCopy(key[g]), Clean(inst[g]))'
    BY <1>1, <2>1 DEF Complete, Suits, IsZeroCopy, Clean
  <2>3. asked'[g] = TRUE => zeroCopy'[inst'[g]] = TRUE
    BY <1>1, <2>1 DEF Complete, Suits, Clean
  <2>4. QED  BY <1>1, <2>1, <2>2, <2>3 DEF Good, IsZeroCopy
<1>4. QED  BY <1>1, <1>2, <1>3, QuietStep DEF Hit, Go, TypeOK

\* A use begins, reads the flag for a field, ends.
LEMMA UseInv ==
  ASSUME IInv, NEW g \in G, Use(g) \/ UseField(g) \/ Used(g)
  PROVE  Kept(g)
<1> USE DEF IInv
<1>1. /\ UNCHANGED <<cached, plan, zeroCopy, key, asked, inst, turned>>
      /\ pc[g] \in {"have", "use"} /\ pc'[g] \in {"have", "use"}
      /\ \A h \in G \ {g} : pc'[h] = pc[h]
  BY DEF Use, UseField, Used, Go, TypeOK
<1>2. /\ inst[g] \in Instances /\ Complete(inst[g], key[g])
      /\ Suits(asked[g], IsZeroCopy(key[g]), Clean(inst[g])) /\ asked[g] \in BOOLEAN
      /\ asked[g] = TRUE => zeroCopy[inst[g]] = TRUE
      /\ result[g] \in Seq(BOOLEAN)
      /\ \A n \in 1..Len(result[g]) : Suits(result[g][n], asked[g], Clean(inst[g]))
  BY <1>1 DEF Good, TypeOK
<1>3. PICK r \in Seq(BOOLEAN) :
        /\ result' = [result EXCEPT ![g] = r]
        /\ \A n \in 1..Len(r) : Suits(r[n], asked[g], Clean(inst[g]))
        /\ pc'[g] = "have" /\ r # <<>> => Len(r) = NumFields
  <2>1. CASE Use(g)
    <3>1. <<>> \in Seq(BOOLEAN) /\ \A n \in 1..Len(<<>>) : FALSE
      OBVIOUS
    <3>2. QED  BY <2>1, <3>1 DEF Use
  <2>2. CASE UseField(g)
    <3> DEFINE flag == zeroCopy[inst[g]]
               r == Append(result[g], flag)
    <3>1. Suits(flag, asked[g], Clean(inst[g])) /\ flag \in BOOLEAN
      BY <1>2 DEF Complete, Suits, Clean, TypeOK
    <3>2. /\ result' = [result EXCEPT ![g] = r] /\ pc'[g] # "have"
      BY <2>2 DEF UseField
    <3> HIDE DEF flag
    <3>3. /\ r \in Seq(BOOLEAN) /\ Len(r) = Len(result[g]) + 1
          /\ \A n \in 1..Len(result[g]) : r[n] = result[g][n]
          /\ r[Len(result[g]) + 1] = flag
      BY <1>2, <3>1
    <3>4. ASSUME NEW n \in 1..Len(r) PROVE Suits(r[n], asked[g], Clean(inst[g]))
      <4>1. CASE n = Len(result[g]) + 1
        BY <3>1, <3>3, <4>1
      <4>2. CASE n # Len(result[g]) + 1
        <5>1. n \in 1..Len(result[g])
          BY <1>2, <3>3, <4>2
        <5>2. QED  BY <1>2, <3>3, <5>1
      <4>3. QED  BY <4>1, <4>2
    <3>5. QED  BY <3>2, <3>3, <3>4
  <2>3. CASE Used(g)
    <3>1. result' = [result EXCEPT ![g] = result[g]] /\ Len(result[g]) = NumFields
      BY <1>2, <2>3 DEF Used, Complete, TypeOK
    <3>2. QED  BY <1>2, <3>1
  <2>4. QED  BY <2>1, <2>2, <2>3
<1>4. TypeOK'
  <2>1. pc' \in [G -> {"idle", "load", "build", "store", "have", "use"}]
    BY DEF Use, UseField, Used, Go, TypeOK
  <2>2. QED  BY <1>1, <1>3, <2>1 DEF TypeOK
<1>5. Good(g)'
  <2>1. result'[g] = r
    BY <1>3 DEF TypeOK
  <2>2. Complete(inst[g], key[g])' /\ Suits(asked[g], IsZeroCopy(key[g]), Clean(inst[g]))'
    BY <1>1, <1>2 DEF Complete, Suits, IsZeroCopy, Clean
  <2>3. \A n \in 1..Len(result'[g]) : Suits(result'[g][n], asked'[g], Clean(inst[g])')
    BY <1>1, <1>3, <2>1 DEF Suits, Clean
  <2>4. QED  BY <1>1, <1>2, <1>3, <2>1, <2>2, <2>3 DEF Good, Suits, Clean
<1>6. \A h \in G \ {g} : result'[h] = result[h]
  BY <1>3 DEF TypeOK
<1>7. QED  BY <1>1, <1>4, <1>5, <1>6, QuietStep

\* A caller lets go of its instance.
LEMMA DropInv ==
  ASSUME IInv, NEW g \in G, Drop(g)
  PROVE  Kept(g)
<1> USE DEF IInv
<1>1. TypeOK'
  <2>1. <<>> \in Seq(BOOLEAN)
    OBVIOUS
  <2>2. QED  BY <2>1 DEF TypeOK, Drop, Go
<1>2. Good(g)'
  BY DEF Drop, Go, TypeOK, Good
<1>3. QED  BY <1>1, <1>2, QuietStep DEF Drop, Go, TypeOK

\* A caller sets the flag of an instance others may hold: it never takes away
\* what they asked for.
LEMMA ZeroCopyInv ==
  ASSUME IInv, NEW g \in G, ZeroCopy(g)
  PROVE  Kept(g)
<1> USE DEF IInv
<1>1. /\ pc[g] = "have" /\ inst[g] \in Instances
      /\ Complete(inst[g], key[g])
  BY DEF ZeroCopy, Good
<1>2. /\ zeroCopy' = [zeroCopy EXCEPT ![inst[g]] = TRUE]
      /\ asked' = [asked EXCEPT ![g] = TRUE]
      /\ result' = [result EXCEPT ![g] = <<>>]
      /\ turned' = turned \cup {inst[g]}
      /\ UNCHANGED <<cached, plan, pc, key, inst>>
  BY DEF ZeroCopy
<1>3. TypeOK'
  <2>1. <<>> \in Seq(BOOLEAN)
    OBVIOUS
  <2>2. turned \cup {inst[g]} \subseteq Instances
    BY <1>1 DEF TypeOK
  <2>3. QED  BY <1>2, <2>1, <2>2 DEF TypeOK
<1>4. \A i \in Instances : KeepsFlag(i)
  BY <1>1, <1>2 DEF TypeOK, KeepsFlag, Clean
<1>5. CacheOK'
  <2>1. \A k \in Keys : Cached(k)' = Cached(k)
    BY <1>2 DEF Cached
  <2>2. ASSUME NEW k \in Keys, Cached(k) # None PROVE Complete(Cached(k), k)'
    <3>1. Cached(k) \in Instances /\ Complete(Cached(k), k)
      BY <2>2, KeyCached DEF CacheOK
    <3>2. KeepsFlag(Cached(k)) /\ plan' = plan
      BY <1>2, <1>4, <3>1
    <3>3. QED  BY <2>1, <3>1, <3>2 DEF Complete, Suits, IsZeroCopy, KeepsFlag, Clean
  <2>3. QED  BY <2>1, <2>2 DEF CacheOK
<1>6. ASSUME NEW h \in G \ {g} PROVE Untouched(h)
  <2>1. inst[h] # None => inst[h] \in Instances
    BY DEF TypeOK
  <2>2. inst[h] # None => KeepsFlag(inst[h])
    BY <1>4, <2>1
  <2>3. pc[h] = "build" => inst[h] # inst[g]
    BY DEF Good, Private
  <2>4. pc[h] = "build" /\ inst[h] # None => zeroCopy'[inst[h]] = zeroCopy[inst[h]]
    BY <1>2, <2>1, <2>3 DEF TypeOK
  <2>5. QED  BY <1>2, <2>2, <2>4 DEF Untouched, TypeOK
<1>7. ASSUME NEW h \in G \ {g}, pc[h] \in {"build", "store"} PROVE Private(h)'
  BY <1>2, <1>7 DEF Good, Private, Cached
<1>8. Good(g)'
  <2>1. result'[g] = <<>> /\ asked'[g] = TRUE /\ zeroCopy'[inst[g]] = TRUE
    BY <1>1, <1>2 DEF TypeOK
  <2>2. Complete(inst[g], key[g])' /\ Suits(asked[g], IsZeroCopy(key[g]), Clean(inst[g]))'
    BY <1>1, <1>2, <2>1 DEF Complete, Suits, IsZeroCopy, Clean
  <2>3. \A n \in 1..Len(result'[g]) : Suits(result'[g][n], asked'[g], Clean(inst[g])')
    BY <2>1
  <2>4. pc'[g] = "have" /\ inst'[g] = inst[g]
    BY <1>1, <1>2
  <2>5. QED  BY <1>1, <2>1, <2>2, <2>3, <2>4 DEF Good
<1>9. QED  BY <1>3, <1>5, <1>6, <1>7, <1>8 DEF Kept

\* Steps of a goroutine that builds, on an instance that is its own.
LEMMA BuildingStep ==
  ASSUME IInv, NEW g \in G, cached' = cached, TypeOK', Good(g)',
         inst[g] # None => Private(g),
         inst'[g] \in Instances, Private(g)',
         NEW n, NEW b, plan' = [plan EXCEPT ![inst'[g]] = n],
         zeroCopy' = [zeroCopy EXCEPT ![inst'[g]] = b],
         turned' = turned \/ turned' = turned \ {inst'[g]},
         \A h \in G \ {g} : /\ pc'[h] = pc[h] /\ key'[h] = key[h] /\ asked'[h] = asked[h]
                            /\ inst'[h] = inst[h] /\ result'[h] = result[h]
  PROVE  Kept(g)
<1> USE DEF IInv
<1>1. \A k \in Keys : Cached(k)' = Cached(k)
  BY DEF Cached
<1>2. \A k \in Keys : Cached(k) # inst'[g]
  BY <1>1 DEF Private
<1>3. \A h \in G \ {g} : inst[h] # inst'[g]
  BY DEF Private
<1>4. CacheOK'
  <2>1. ASSUME NEW k \in Keys, Cached(k) # None PROVE Complete(Cached(k), k)'
    <3>1. /\ Cached(k) \in Instances /\ Complete(Cached(k), k)
          /\ Cached(k) # inst'[g]
      BY <1>2, <2>1, KeyCached DEF CacheOK
    <3>2. /\ plan'[Cached(k)] = plan[Cached(k)]
          /\ zeroCopy'[Cached(k)] = zeroCopy[Cached(k)]
          /\ Clean(Cached(k))' <=> Clean(Cached(k))
      BY <1>1, <3>1 DEF TypeOK, Clean
    <3>3. QED  BY <1>1, <3>1, <3>2 DEF Complete, Suits, IsZeroCopy, Clean
  <2>2. QED  BY <1>1, <2>1 DEF CacheOK
<1>5. ASSUME NEW h \in G \ {g} PROVE Untouched(h)
  BY <1>3 DEF Untouched, KeepsFlag, TypeOK, Clean
<1>6. ASSUME NEW h \in G \ {g}, pc[h] \in {"build", "store"} PROVE Private(h)'
  <2>1. Private(h) /\ inst'[h] = inst[h]
    BY <1>6 DEF Good
  <2>2. \A f \in G \ {h} : inst'[f] # inst[h]
    BY <1>3, <2>1 DEF Private
  <2>3. QED  BY <1>1, <2>1, <2>2 DEF Private
<1>7. QED  BY <1>4, <1>5, <1>6 DEF Kept

\* A look-up that finds none takes an instance nobody refers to.
LEMMA MissInv ==
  ASSUME IInv, NEW g \in G, Miss(g)
  PROVE  Kept(g)
<1> USE DEF IInv
<1>1. PICK i \in Instances \ InUse :
        /\ inst' = [inst EXCEPT ![g] = i]
        /\ plan' = [plan EXCEPT ![i] = 0]
        /\ zeroCopy' = [zeroCopy EXCEPT ![i] = FALSE]
        /\ turned' = turned \ {i}
  BY DEF Miss
<1>2. TypeOK'
  <2>1. 0 \in 0..NumFields
    BY FieldsAssumption
  <2>2. QED  BY <1>1, <2>1 DEF TypeOK, Miss, Go
<1>3. inst'[g] = i /\ \A h \in G \ {g} : inst'[h] = inst[h]
  BY <1>1 DEF TypeOK
<1>4. (\A k \in Keys : Cached(k) # i) /\ (\A h \in G : inst[h] # i)
  BY DEF InUse
<1>5. Private(g)'
  BY <1>3, <1>4 DEF Private, Cached, Miss
<1>6. Good(g)'
  <2>1. /\ pc'[g] = "build" /\ zeroCopy'[i] = FALSE
        /\ result'[g] = <<>> /\ asked'[g] = IsZeroCopy(key'[g])
    BY <1>1 DEF Miss, Go, TypeOK, Good, IsZeroCopy
  <2>2. Suits(asked[g], IsZeroCopy(key[g]), Clean(inst[g]))'
    BY <2>1 DEF Suits, IsZeroCopy
  <2>3. QED  BY <1>3, <1>5, <2>1, <2>2 DEF Good, IsZeroCopy
<1>7. inst[g] = None
  BY DEF Miss, Go, Good
<1>8. QED
  BY <1>1, <1>2, <1>3, <1>5, <1>6, <1>7, BuildingStep DEF Miss, Go, TypeOK

\* A field is added to an instance that is private.
LEMMA AddFieldInv ==
  ASSUME IInv, NEW g \in G, AddField(g)
  PROVE  Kept(g)
<1> USE DEF IInv
<1> DEFINE n == plan[inst[g]] + 1
<1>1. inst[g] \in Instances /\ Private(g) /\ pc[g] = "build"
  BY DEF AddField, Good
<1>2. n \in 0..NumFields
  BY <1>1, FieldsAssumption DEF AddField, TypeOK
<1>3. /\ plan' = [plan EXCEPT ![inst'[g]] = n]
      /\ zeroCopy' = [zeroCopy EXCEPT ![inst'[g]] = zeroCopy[inst[g]]]
  BY <1>1 DEF AddField, TypeOK
<1>4. TypeOK'
  BY <1>2, <1>3 DEF TypeOK, AddField
<1>5. Private(g)'
  BY <1>1 DEF AddField, Private, Cached
<1>6. Good(g)'
  <2>1. Suits(asked[g], IsZeroCopy(key[g]), Clean(inst[g]))'
    BY <1>1 DEF AddField, Good, Suits, IsZeroCopy
  <2>2. QED  BY <1>1, <1>5, <2>1 DEF AddField, Good, IsZeroCopy
<1>7. QED
  BY <1>1, <1>3, <1>4, <1>5, <1>6, BuildingStep DEF AddField

\* The plan is complete and the flag that of the map.
LEMMA BuiltInv ==
  ASSUME IInv, NEW g \in G, Built(g)
  PROVE  Kept(g)
<1> USE DEF IInv
<1>1. inst[g] \in Instances /\ Private(g) /\ pc[g] = "build" /\ zeroCopy[inst[g]] = FALSE
  BY DEF Built, Go, Good
<1>2. /\ plan' = [plan EXCEPT ![inst'[g]] = plan[inst[g]]]
      /\ zeroCopy' = [zeroCopy EXCEPT ![inst'[g]] = IsZeroCopy(key[g])]
  BY <1>1 DEF Built, TypeOK, IsZeroCopy
<1>3. TypeOK'
  BY <1>2 DEF TypeOK, Built, Go, IsZeroCopy
<1>4. Private(g)'
  BY <1>1 DEF Built, Private, Cached
<1>5. Complete(inst[g], key[g])'
  BY <1>1, <1>2 DEF Built, TypeOK, Complete, Suits, IsZeroCopy, Clean
<1>6. Good(g)'
  <2>1. /\ pc'[g] = "store" /\ inst' = inst /\ key' = key
        /\ result'[g] = <<>> /\ asked'[g] = IsZeroCopy(key'[g])
    BY <1>1 DEF Built, Go, TypeOK, Good, IsZeroCopy
  <2>2. Suits(asked[g], IsZeroCopy(key[g]), Clean(inst[g]))'
    BY <2>1 DEF Suits, IsZeroCopy
  <2>3. QED  BY <1>1, <1>4, <1>5, <2>1, <2>2 DEF Good, IsZeroCopy
<1>7. QED
  BY <1>1, <1>2, <1>3, <1>4, <1>6, BuildingStep DEF Built, Go, TypeOK

\* A complete instance is published.
LEMMA StoreInv ==
  ASSUME IInv, NEW g \in G, Store(g)
  PROVE  Kept(g)
<1> USE DEF IInv
<1>1. inst[g] \in Instances /\ Private(g) /\ pc[g] = "store"
      /\ Complete(inst[g], key[g]) /\ key[g] \in Keys
  BY DEF Store, Go, Good, TypeOK
<1>2. \A k \in Keys : Cached(k)' = IF k = key[g] THEN inst[g] ELSE Cached(k)
  <2>1. key[g] \in [map : Maps, type : Types]
    BY <1>1 DEF Keys
  <2>2. ASSUME NEW k \in Keys
        PROVE  cached'[k.map][k.type]
                 = IF k.map = key[g].map /\ k.type = key[g].type
                     THEN inst[g] ELSE cached[k.map][k.type]
    BY <2>1 DEF Store, TypeOK, Keys
  <2>3. ASSUME NEW k \in Keys, k.map = key[g].map, k.type = key[g].type
        PROVE  k = key[g]
    BY <2>1, <2>3 DEF Keys
  <2>4. QED  BY <1>1, <2>2, <2>3 DEF Cached
<1>3. TypeOK'
  BY <1>1 DEF TypeOK, Store, Go, Keys
<1>4. CacheOK'
  <2>1. plan' = plan /\ zeroCopy' = zeroCopy /\ turned' = turned
    BY DEF Store
  <2>2. ASSUME NEW k \in Keys, Cached(k)' # None PROVE Complete(Cached(k), k)'
    <3>1. plan'[Cached(k)'] = NumFields
      BY <1>1, <1>2, <2>1, <2>2 DEF CacheOK, Complete
    <3>2. Suits(zeroCopy'[Cached(k)'], IsZeroCopy(k), Clean(Cached(k))')
      <4>1. CASE k = key[g]
        BY <1>1, <1>2, <2>1, <4>1 DEF Complete, Suits, Clean
      <4>2. CASE k # key[g]
        BY <1>2, <2>1, <2>2, <4>2 DEF CacheOK, Complete, Suits, Clean
      <4>3. QED  BY <4>1, <4>2
    <3>3. QED  BY <3>1, <3>2 DEF Complete, Suits, IsZeroCopy, Clean
  <2>3. QED  BY <2>2 DEF CacheOK, Complete, Suits, IsZeroCopy, Clean, Cached
<1>5. ASSUME NEW h \in G \ {g} PROVE Untouched(h)
  BY DEF Store, Go, Untouched, KeepsFlag, Clean, TypeOK
<1>6. ASSUME NEW h \in G \ {g}, pc[h] \in {"build", "store"} PROVE Private(h)'
  <2>1. Private(h) /\ inst' = inst /\ inst[g] # inst[h]
    BY <1>1, <1>6 DEF Good, Store, Private
  <2>2. QED  BY <1>2, <2>1 DEF Private
<1>7. Good(g)'
  <2>1. /\ pc'[g] = "have" /\ inst' = inst /\ key' = key /\ plan' = plan
        /\ zeroCopy' = zeroCopy /\ result'[g] = <<>> /\ asked'[g] = IsZeroCopy(key'[g])
        /\ turned' = turned
    BY <1>1 DEF Store, Go, TypeOK, Good, IsZeroCopy
  <2>2. Complete(inst[g], key[g])' /\ Suits(asked[g], IsZeroCopy(key[g]), Clean(inst[g]))'
    BY <1>1, <2>1 DEF Complete, Suits, IsZeroCopy, Clean
  <2>3. asked'[g] = TRUE => zeroCopy'[inst'[g]] = TRUE
    BY <1>1, <2>1 DEF Complete, Suits, Clean
  <2>4. QED  BY <1>1, <2>1, <2>2, <2>3 DEF Good, IsZeroCopy
<1>8. QED  BY <1>3, <1>4, <1>5, <1>6, <1>7 DEF Kept

\* Every step keeps the invariant.
LEMMA NextInv == IInv /\ [Next]_vars => IInv'
<1> SUFFICES ASSUME IInv, [Next]_vars PROVE IInv'
  OBVIOUS
<1>1. ASSUME NEW g \in G, Kept(g) PROVE IInv'
  BY <1>1, GoodStays DEF Kept, IInv
<1>2. ASSUME NEW g \in G,
             \/ Ask(g) \/ Lookup(g)
             \/ Use(g) \/ UseField(g) \/ Used(g) \/ ZeroCopy(g) \/ Drop(g)
      PROVE  Kept(g)
  <2>1. CASE Ask(g)       BY <2>1, AskInv
  <2>2. CASE Hit(g)       BY <2>2, HitInv
  <2>3. CASE Miss(g)      BY <2>3, MissInv
  <2>4. CASE AddField(g)  BY <2>4, AddFieldInv
  <2>5. CASE Built(g)     BY <2>5, BuiltInv
  <2>6. CASE Store(g)     BY <2>6, StoreInv
  <2>7. CASE Use(g) \/ UseField(g) \/ Used(g)
    BY <2>7, UseInv
  <2>8. CASE ZeroCopy(g)  BY <2>8, ZeroCopyInv
  <2>9. CASE Drop(g)      BY <2>9, DropInv
  <2>10. QED
    BY <1>2, <2>1, <2>2, <2>3, <2>4, <2>5, <2>6, <2>7, <2>8, <2>9 DEF Lookup
<1>3. CASE UNCHANGED vars
  BY <1>3 DEF vars, IInv, TypeOK, CacheOK, Good, Complete, Suits, Clean, Private,
                 Cached, IsZeroCopy
<1>4. QED  BY <1>1, <1>2, <1>3 DEF Next

\* The invariant holds whether callers call ZeroCopy (struct_decoder.go:105) or not.
THEOREM Invariance == Spec => []IInv
<1>1. IInv /\ [Next]_vars => IInv'
  BY NextInv
<1>2. QED  BY <1>1, InitInv, PTL DEF Spec

\* The variables keep their types.
THEOREM TypeCorrect == Spec => []TypeOK
<1>1. IInv => TypeOK  BY DEF IInv
<1>2. QED  BY <1>1, Invariance, PTL

\* A caller that asked for zero-copy strings, by the map or by ZeroCopy, gets
\* them at every field, whatever the others who share its instance do.
THEOREM ZeroCopyKept == Spec => []ZeroCopyIsKept
<1>1. IInv => ZeroCopyIsKept
  BY DEF IInv, Good, Suits, ZeroCopyIsKept
<1>2. QED  BY <1>1, Invariance, PTL

\* Every use covers all fields, and treats strings as its own caller asked unless
\* a caller called ZeroCopy on the instance it is given (struct_decoder.go:105).
THEOREM UsesAreAsAsked == Spec => []UnturnedAsAsked
<1>1. IInv => UnturnedAsAsked
  BY DEF IInv, Good, Suits, Clean, UnturnedAsAsked, AsAsked
<1>2. QED  BY <1>1, Invariance, PTL

=============================================================================
