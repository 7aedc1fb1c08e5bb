----------------------------- MODULE CodecCache -----------------------------
(***************************************************************************)
(* The five sync.Maps that keep what reflection finds out about a struct   *)
(* type: GetStructDecoder's two, GetStructEncoder's, getStructInfo's and   *)
(* getNestedFieldMap's.  Each look-up is Load; on a miss build, then Store *)
(* -- no lock, so goroutines that miss together each build an instance and *)
(* the last Store wins.  Instances are shared: every goroutine that loads  *)
(* one reads its fields and, in a StructDecoder, its zeroCopy flag while   *)
(* the others do, and StructDecoder.ZeroCopy writes that flag.             *)
(***************************************************************************)
EXTENDS Naturals, Sequences

CONSTANTS
  G,               \* the goroutines
  Maps,            \* the sync.Maps in use
  Types,           \* the struct types, their keys
  NumFields,       \* how many fields the types have
  Instances,       \* identities for the instances that exist at one time
  None             \* "no instance"

DecoderMaps == {"structDecoderCache", "structDecoderZeroCopyCache"}
AllMaps == DecoderMaps \cup {"structEncoderCache", "structCache", "nestedFieldMapCache"}

ASSUME MapsAssumption == Maps \subseteq AllMaps /\ Maps # {}
ASSUME TypesAssumption == Types # {}
ASSUME FieldsAssumption == NumFields \in Nat
ASSUME NoneAssumption == None \notin Instances

VARIABLES
  cached,     \* cached[m][t]: the instance map m holds for type t
  plan,       \* plan[i]: how many of its fields instance i has
  zeroCopy,   \* zeroCopy[i]: the flag of a StructDecoder
  pc,         \* where each goroutine is
  key,        \* the map and type it looked up
  asked,      \* whether it asked for strings that point into its input
  inst,       \* the instance it builds or uses
  result,     \* its last use, field by field: does the string alias the input
  turned      \* history: the instances on which a caller has called ZeroCopy

vars == <<cached, plan, zeroCopy, pc, key, asked, inst, result, turned>>

Keys == [map : Maps, type : Types]
Go(g, from, to) == pc[g] = from /\ pc' = [pc EXCEPT ![g] = to]
Cached(k) == cached[k.map][k.type]
InUse == {inst[g] : g \in G} \cup {Cached(k) : k \in Keys}

-----------------------------------------------------------------------------
Init ==
  /\ cached = [m \in Maps |-> [t \in Types |-> None]]
  /\ plan = [i \in Instances |-> 0]
  /\ zeroCopy = [i \in Instances |-> FALSE]
  /\ pc = [g \in G |-> "idle"]
  /\ key = [g \in G |-> CHOOSE k \in Keys : TRUE]
  /\ asked = [g \in G |-> FALSE]
  /\ inst = [g \in G |-> None]
  /\ result = [g \in G |-> <<>>]
  /\ turned = {}

\* A goroutine asks a map for the instance of a type; only GetStructDecoder
\* with zeroCopy = true looks in structDecoderZeroCopyCache.
Ask(g) ==
  /\ Go(g, "idle", "load")
  /\ \E k \in Keys :
       /\ key' = [key EXCEPT ![g] = k]
       /\ asked' = [asked EXCEPT ![g] = k.map = "structDecoderZeroCopyCache"]
  /\ UNCHANGED <<cached, plan, zeroCopy, inst, result, turned>>

\* Mutant of Hit: what Load found is not used.
Hit_Rebuilds(g) ==
  /\ Go(g, "load", "build")
  /\ Cached(key[g]) # None
  /\ \E i \in Instances \ InUse :
       /\ inst' = [inst EXCEPT ![g] = i]
       /\ plan' = [plan EXCEPT ![i] = 0]
       /\ zeroCopy' = [zeroCopy EXCEPT ![i] = FALSE]
       /\ turned' = turned \ {i}
  /\ UNCHANGED <<cached, key, asked, result>>

\* Load finds an instance ...
Hit(g) ==
  /\ Go(g, "load", "have")
  /\ Cached(key[g]) # None
  /\ inst' = [inst EXCEPT ![g] = Cached(key[g])]
  /\ UNCHANGED <<cached, plan, zeroCopy, key, asked, result, turned>>

\* Mutant of Miss: the new instance is stored first and filled then.
Miss_StoresFirst(g) ==
  /\ Go(g, "load", "build")
  /\ Cached(key[g]) = None
  /\ \E i \in Instances \ InUse :
       /\ inst' = [inst EXCEPT ![g] = i]
       /\ plan' = [plan EXCEPT ![i] = 0]
       /\ zeroCopy' = [zeroCopy EXCEPT ![i] = FALSE]
       /\ turned' = turned \ {i}
       /\ cached' = [cached EXCEPT ![key[g].map][key[g].type] = i]
  /\ UNCHANGED <<key, asked, result>>

\* ... or none: a new one, which nothing refers to, without fields yet.
Miss(g) ==
  /\ Go(g, "load", "build")
  /\ Cached(key[g]) = None
  /\ \E i \in Instances \ InUse :
       /\ inst' = [inst EXCEPT ![g] = i]
       /\ plan' = [plan EXCEPT ![i] = 0]
       /\ zeroCopy' = [zeroCopy EXCEPT ![i] = FALSE]
       /\ turned' = turned \ {i}
  /\ UNCHANGED <<cached, key, asked, result>>

\* Mutant of AddField: one field too many.
AddField_OffByOne(g) ==
  /\ pc[g] = "build"
  /\ plan[inst[g]] <= NumFields
  /\ plan' = [plan EXCEPT ![inst[g]] = @ + 1]
  /\ UNCHANGED <<cached, zeroCopy, pc, key, asked, inst, result, turned>>

\* The loops of newStructDecoder, newStructEncoder, buildStructInfo and
\* buildNestedFieldMap.
AddField(g) ==
  /\ pc[g] = "build"
  /\ plan[inst[g]] < NumFields
  /\ plan' = [plan EXCEPT ![inst[g]] = @ + 1]
  /\ UNCHANGED <<cached, zeroCopy, pc, key, asked, inst, result, turned>>

\* Mutants of Built: GetStructDecoder(true) without its call of ZeroCopy; a
\* builder that goes on only while nobody else has stored.
Built_NoFlag(g) ==
  /\ Go(g, "build", "store")
  /\ plan[inst[g]] = NumFields
  /\ UNCHANGED <<cached, plan, zeroCopy, key, asked, inst, result, turned>>
Built_FirstOnly(g) ==
  /\ Go(g, "build", "store")
  /\ plan[inst[g]] = NumFields /\ Cached(key[g]) = None
  /\ zeroCopy' = [zeroCopy EXCEPT ![inst[g]] =
                    @ \/ key[g].map = "structDecoderZeroCopyCache"]
  /\ UNCHANGED <<cached, plan, key, asked, inst, result, turned>>

\* The builder returns; GetStructDecoder(true) also calls ZeroCopy.
Built(g) ==
  /\ Go(g, "build", "store")
  /\ plan[inst[g]] = NumFields
  /\ zeroCopy' = [zeroCopy EXCEPT ![inst[g]] =
                    @ \/ key[g].map = "structDecoderZeroCopyCache"]
  /\ UNCHANGED <<cached, plan, key, asked, inst, result, turned>>

Store(g) ==
  /\ Go(g, "store", "have")
  /\ cached' = [cached EXCEPT ![key[g].map][key[g].type] = inst[g]]
  /\ UNCHANGED <<plan, zeroCopy, key, asked, inst, result, turned>>

\* Use: decodeInto, encodeInto and their like walk the fields of the instance.
Use(g) ==
  /\ Go(g, "have", "use")
  /\ result' = [result EXCEPT ![g] = <<>>]
  /\ UNCHANGED <<cached, plan, zeroCopy, key, asked, inst, turned>>

\* One field.  A StructDecoder reads its flag at every string; the others
\* have none, and theirs stays FALSE.
UseField(g) ==
  /\ pc[g] = "use"
  /\ Len(result[g]) < plan[inst[g]]
  /\ result' = [result EXCEPT ![g] = Append(@, zeroCopy[inst[g]])]
  /\ UNCHANGED <<cached, plan, zeroCopy, pc, key, asked, inst, turned>>

Used(g) ==
  /\ Go(g, "use", "have")
  /\ Len(result[g]) = plan[inst[g]]
  /\ UNCHANGED <<cached, plan, zeroCopy, key, asked, inst, result, turned>>

\* A caller turns the decoder it got into a zero-copy one: ZeroCopy sets the
\* receiver's flag and returns the receiver.
ZeroCopy(g) ==
  /\ pc[g] = "have" /\ key[g].map \in DecoderMaps
  /\ zeroCopy' = [zeroCopy EXCEPT ![inst[g]] = TRUE]
  /\ turned' = turned \cup {inst[g]}
  /\ asked' = [asked EXCEPT ![g] = TRUE]
  /\ result' = [result EXCEPT ![g] = <<>>]
  /\ UNCHANGED <<cached, plan, pc, key, inst>>

\* The caller drops its instance and what it got from it.
Drop(g) ==
  /\ Go(g, "have", "idle")
  /\ inst' = [inst EXCEPT ![g] = None]
  /\ result' = [result EXCEPT ![g] = <<>>]
  /\ UNCHANGED <<cached, plan, zeroCopy, key, asked, turned>>

Lookup(g) == Hit(g) \/ Miss(g) \/ AddField(g) \/ Built(g) \/ Store(g)
Next == \E g \in G :
          \/ Ask(g) \/ Lookup(g)
          \/ Use(g) \/ UseField(g) \/ Used(g) \/ ZeroCopy(g) \/ Drop(g)

\* Look-ups and uses run to their end; callers call when they like.
Spec == /\ Init /\ [][Next]_vars
        /\ \A g \in G : WF_vars(Lookup(g) \/ UseField(g) \/ Used(g))

-----------------------------------------------------------------------------
(* Properties.                                                             *)

\* The type invariant.
TypeOK ==
  /\ cached \in [Maps -> [Types -> Instances \cup {None}]]
  /\ plan \in [Instances -> 0..NumFields]
  /\ zeroCopy \in [Instances -> BOOLEAN]
  /\ pc \in [G -> {"idle", "load", "build", "store", "have", "use"}]
  /\ key \in [G -> Keys]
  /\ asked \in [G -> BOOLEAN]
  /\ inst \in [G -> Instances \cup {None}]
  /\ result \in [G -> Seq(BOOLEAN)]
  /\ turned \subseteq Instances

AsAsked(g) == \A n \in 1..Len(result[g]) : result[g][n] = asked[g]

\* Every use of a cached instance covers all fields of the type, and handles
\* every string the way its own caller asked for unless a caller has called
\* ZeroCopy on that very instance: not while other goroutines look up, build,
\* replace, turn and use other instances of the same type.
UnturnedAsAsked ==
  \A g \in G :
    /\ inst[g] \notin turned => AsAsked(g)
    /\ pc[g] = "have" /\ result[g] # <<>> => Len(result[g]) = NumFields

\* "thread-safe codecs": every string is handled the way its own caller asked
\* for, whatever the callers it shares an instance with do.
UsesAsAsked == \A g \in G : AsAsked(g)

\* A caller that asked for zero-copy strings gets them at every field, whoever
\* else uses the instance and whichever instance it was given.
ZeroCopyIsKept ==
  \A g \in G : asked[g] => \A n \in 1..Len(result[g]) : result[g][n]

\* Goroutines may build the same instance twice, but not forever: the maps
\* come to rest, and whoever asks from then on gets the same instance.
MapsSettle == <>[][UNCHANGED cached]_vars

\* Every look-up ends with an instance.
LookupsReturn == \A g \in G : pc[g] = "load" ~> pc[g] = "have"
=============================================================================
