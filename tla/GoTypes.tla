------------------------------- MODULE GoTypes -------------------------------
(***************************************************************************)
(* Go types, by reflect.Kind; []byte is "Bytes", time.Time is "Time".      *)
(***************************************************************************)

Ints   == {"Int", "Int8", "Int16", "Int32", "Int64"}
Uints  == {"Uint", "Uint8", "Uint16", "Uint32", "Uint64"}
Floats == {"Float32", "Float64"}
Basic  == Ints \cup Uints \cup Floats \cup {"Bool", "String"}
Kinds  == Basic \cup {"Bytes", "Time", "Interface", "Slice", "Array", "Map", "Ptr", "Struct"}

Of(k)      == [kind |-> k]
Slice(t)   == [kind |-> "Slice", elem |-> t]
MapOf(t)   == [kind |-> "Map", elem |-> t]        \* keys are strings
Ptr(t)     == [kind |-> "Ptr", elem |-> t]
Struct(fs) == [kind |-> "Struct", fields |-> fs]  \* fs: key (bytes) to type
ArrayOf(n, t) == [kind |-> "Array", elem |-> t, len |-> n]
=============================================================================
