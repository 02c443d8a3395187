------------------------------ MODULE Builtins ------------------------------
(***************************************************************************)
(* The builders of builtin.ts: of each builtin class and of each builtin   *)
(* constructor, the properties and the functions that have a weight.       *)
(* StringCtor and ArrayCtor take the weights of DateConstructorProperty,   *)
(* as the code does.                                                       *)
(***************************************************************************)
EXTENDS Specs, Weights

Weighted(dsps, weights) == {d \in dsps : d.op \in weights}
Builtin(name, propDsps, wPropDsps, funcDsps, wFuncDsps) ==
    [name |-> name, props |-> Weighted(propDsps, wPropDsps),
     funcs |-> Weighted(funcDsps, wFuncDsps)]

NumberBuilder == Builtin("Number",
    {}, {},
    NumberFunctionDsps, NumberFunctionWeight)
NumberCtorBuilder == Builtin("NumberCtor",
    NumberConstructorPropertyDsps, NumberConstructorPropertyWeight,
    NumberConstructorFunctionDsps, NumberConstructorFunctionWeight)
MathBuilder == Builtin("Math",
    MathPropertyDsps, MathPropertyWeight,
    MathFunctionDsps, MathFunctionWeight)
DateBuilder == Builtin("Date",
    DatePropertyDsps, DatePropertyWeight,
    DateFunctionDsps, DateFunctionWeight)
DateCtorBuilder == Builtin("DateCtor",
    DateConstructorPropertyDsps, DateConstructorPropertyWeight,
    DateConstructorFunctionDsps, DateConstructorFunctionWeight)
StringBuilder == Builtin("String",
    StringPropertyDsps, StringPropertyWeight,
    StringFunctionDsps, StringFunctionWeight)
StringCtorBuilder == Builtin("StringCtor",
    StringConstructorPropertyDsps, DateConstructorPropertyWeight,
    StringConstructorFunctionDsps, StringConstructorFunctionWeight)
RegExpBuilder == Builtin("RegExp",
    RegExpPropertyDsps, RegExpPropertyWeight,
    RegExpFunctionDsps, RegExpFunctionWeight)
RegExpCtorBuilder == Builtin("RegExpCtor",
    RegExpConstructorPropertyDsps, RegExpConstructorPropertyWeight,
    {}, {})
ArrayBuilder == Builtin("Array",
    ArrayPropertyDsps, ArrayPropertyWeight,
    ArrayFunctionDsps, ArrayFunctionWeight)
ArrayCtorBuilder == Builtin("ArrayCtor",
    ArrayConstructorPropertyDsps, DateConstructorPropertyWeight,
    ArrayConstructorFunctionDsps, ArrayConstructorFunctionWeight)
TypedArrayBuilder == Builtin("TypedArray",
    TypedArrayPropertyDsps, TypedArrayProepertyWeight,
    TypedArrayFunctionDsps, TypedArrayFunctionWeight)
TypedArrayCtorBuilder == Builtin("TypedArrayCtor",
    TypedArrayConstructorPropertyDsps, TypedArrayConstructorPropertyWeight,
    TypedArrayConstructorFunctionDsps, TypedArrayConstructorFunctionWeight)
MapBuilder == Builtin("Map",
    MapPropertyDsps, MapPropertyWeight,
    MapFunctionDsps, MapFunctionWeight)
MapCtorBuilder == Builtin("MapCtor",
    MapConstructorPropertyDsps, MapConstructorPropertyWeight,
    {}, {})
SetBuilder == Builtin("Set",
    SetPropertyDsps, SetPropertyWeight,
    SetFunctionDsps, SetFunctionWeight)
SetCtorBuilder == Builtin("SetCtor",
    SetConstructorPropertyDsps, SetConstructorPropertyWeight,
    {}, {})
WeakMapBuilder == Builtin("WeakMap",
    WeakMapPropertyDsps, WeakMapPropertyWeight,
    WeakMapFunctionDsps, WeakMapFunctionWeight)
WeakMapCtorBuilder == Builtin("WeakMapCtor",
    WeakMapConstructorPropertyDsps, WeakMapConstructorPropertyWeight,
    {}, {})
WeakSetBuilder == Builtin("WeakSet",
    WeakSetPropertyDsps, WeakSetPropertyWeight,
    WeakSetFunctionDsps, WeakSetFunctionWeight)
WeakSetCtorBuilder == Builtin("WeakSetCtor",
    WeakSetConstructorPropertyDsps, WeakSetConstructorPropertyWeight,
    {}, {})
ArrayBufferBuilder == Builtin("ArrayBuffer",
    ArrayBufferPropertyDsps, ArrayBufferPropertyWeight,
    ArrayBufferFunctionDsps, ArrayBufferFunctionWeight)
ArrayBufferCtorBuilder == Builtin("ArrayBufferCtor",
    ArrayBufferConstructorPropertyDsps, ArrayBufferConstructorPropertyWeight,
    ArrayBufferConstructorFunctionDsps, ArrayBufferConstructorFunctionWeight)
DataViewBuilder == Builtin("DataView",
    DataViewPropertyDsps, DataViewPropertyWeight,
    DataViewFunctionDsps, DataViewFunctionWeight)
DataViewCtorBuilder == Builtin("DataViewCtor",
    DataViewConstructorPropertyDsps, DataViewConstructorPropertyWeight,
    {}, {})
ObjectBuilder == Builtin("Object",
    ObjectPropertyDsps, ObjectPropertyWeight,
    ObjectFunctionDsps, ObjectFunctionWeight)
ObjectCtorBuilder == Builtin("ObjectCtor",
    ObjectConstructorPropertyDsps, ObjectConstructorPropertyWeight,
    ObjectConstructorFunctionDsps, ObjectConstructorFunctionWeight)
IteratorBuilder == Builtin("Iterator",
    {}, {},
    IteratorFunctionDsps, IteratorFunctionWeight)

(* In the order in which the constructor of Builder fills the two maps.    *)
builtinBuilders == <<
    NumberBuilder, DateBuilder, StringBuilder, RegExpBuilder, ArrayBuilder,
    TypedArrayBuilder, MapBuilder, SetBuilder, WeakMapBuilder,
    WeakSetBuilder, ArrayBufferBuilder, DataViewBuilder, ObjectBuilder,
    IteratorBuilder>>
builtinCtorBuilders == <<
    NumberCtorBuilder, MathBuilder, DateCtorBuilder, StringCtorBuilder,
    RegExpCtorBuilder, ArrayCtorBuilder, TypedArrayCtorBuilder,
    MapCtorBuilder, SetCtorBuilder, WeakMapCtorBuilder, WeakSetCtorBuilder,
    ArrayBufferCtorBuilder, DataViewCtorBuilder, ObjectCtorBuilder>>

(* builtinCtorBuilders[name + "Ctor"], the builder of a constructor.       *)
CtorBuilderOf ==
    [Number |-> NumberCtorBuilder, Date |-> DateCtorBuilder,
     String |-> StringCtorBuilder, RegExp |-> RegExpCtorBuilder,
     Array |-> ArrayCtorBuilder, TypedArray |-> TypedArrayCtorBuilder,
     Map |-> MapCtorBuilder, Set |-> SetCtorBuilder,
     WeakMap |-> WeakMapCtorBuilder, WeakSet |-> WeakSetCtorBuilder,
     ArrayBuffer |-> ArrayBufferCtorBuilder, DataView |-> DataViewCtorBuilder,
     Object |-> ObjectCtorBuilder]
(* builtinBuilders[typeName], the builder of the values of a class.        *)
BuilderOf ==
    [number |-> NumberBuilder, date |-> DateBuilder, string |-> StringBuilder,
     regexp |-> RegExpBuilder, array |-> ArrayBuilder,
     typedarray |-> TypedArrayBuilder, map |-> MapBuilder, set |-> SetBuilder,
     weakmap |-> WeakMapBuilder, weakset |-> WeakSetBuilder,
     arraybuffer |-> ArrayBufferBuilder, dataview |-> DataViewBuilder,
     object |-> ObjectBuilder, any |-> ObjectBuilder,
     iterator |-> IteratorBuilder]
=============================================================================
