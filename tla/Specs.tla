-------------------------------- MODULE Specs --------------------------------
(***************************************************************************)
(* The tables of esspecs.ts: what every operator, property and function of *)
(* JavaScript needs and gives.  Operators of one table that need and give  *)
(* the same types are one entry here, named after the first of them.       *)
(***************************************************************************)
EXTENDS Types

(* An entry: what it is called on, the arguments it must and may have, and *)
(* the type it gives.  The arguments of a type are one argument here.      *)
Method(op, on, must, may, gives) ==
    [op |-> op, on |-> on, must |-> must, may |-> may, gives |-> gives]
Property(op, on, gives) == Method(op, on, {}, {}, gives)
Operator(op, must, gives) == Method(op, {}, must, {}, gives)

LiteralDsps == {
    Operator("Boolean", {}, boolean), Operator("String", {}, string),
    Operator("Number", {}, number), Operator("Null", {}, null),
    Operator("RegExp", {}, regexp), Operator("Math", {}, math),
    Operator("BuiltinConstructor", {}, constructor)}
BinaryExpressionDsps == {
    Operator("+", {number \cup string}, number \cup string),
    Operator("-", {number}, number), Operator("==", {any}, boolean),
    Operator("in", {string, object}, boolean),
    Operator("instanceof", {object, constructor}, boolean)}
LogicalExpressionDsps == {Operator("&&", {any}, boolean)}
UnaryExpressionDsps == {
    Operator("void", {any}, undefined), Operator("delete", {any}, boolean),
    Operator("!", {boolean}, boolean), Operator("+", {number}, number),
    Operator("typeof", {any}, string)}
UpdateExpressionDsps == {Operator("++", {number}, number)}
NewExpressionDsps == {
    Operator("Array", {}, array), Operator("ArrayBuffer", {number},
           arraybuffer),
    Operator("SharedArrayBuffer", {number}, T("sharedarraybuffer")),
    Method("DataView", {}, {arraybuffer}, {number}, dataview),
    Operator("Date", {}, date), Operator("Error", {string}, T("error")),
    Operator("Int8Array", {}, typedarray),
    Method("Map", {}, {}, {iterable}, map),
    Method("WeakMap", {}, {}, {iterable}, weakmap),
    Method("Set", {}, {}, {iterable}, set),
    Method("WeakSet", {}, {}, {iterable}, weakset),
    Operator("Object", {object}, object),
    Operator("Promise", {function}, T("promise")),
    Operator("Proxy", {object, descriptor}, T("proxy")),
    Operator("RegExp", {regexp, string}, regexp),
    Operator("Boolean", {boolean}, boolean),
    Operator("Number", {number}, number),
    Operator("Function", {}, function), Operator("Symbol", {}, symbol)}
MemberExpressionDsps == {
    Operator("array", {array}, any), Operator("object", {object}, any),
    Operator("typedarray", {typedarray}, number)}
ArrayExpressionDsps == {
    Operator("Any", {}, array), Operator("Number", {}, numberArray)}
NumberConstructorPropertyDsps == {
    Property("prototype", Ctor("Number"), Proto("Number")),
    Property("EPSILON", Ctor("Number"), number)}
NumberConstructorFunctionDsps == {
    Method("isNaN", Ctor("Number"), {number}, {}, boolean),
    Method("parseFloat", Ctor("Number"), {string}, {}, number)}
NumberFunctionDsps == {
    Method("toExponential", number, {}, {}, string),
    Method("valueOf", number, {}, {}, number)}
MathPropertyDsps == {Property("E", math, number)}
MathFunctionDsps == {
    Method("abs", math, {number}, {}, number),
    Method("random", math, {}, {}, number)}
DateConstructorPropertyDsps == {
    Property("prototype", Ctor("Date"), Proto("Date"))}
DateConstructorFunctionDsps == {
    Method("now", Ctor("Date"), {}, {}, number),
    Method("parse", Ctor("Date"), {string}, {}, number),
    Method("UTC", Ctor("Date"), {number}, {}, number)}
DatePropertyDsps == {Property("__proto__", date, Proto("Date"))}
DateFunctionDsps == {
    Method("getDate", date, {}, {}, number),
    Method("setDate", date, {number}, {}, undefined),
    Method("toDateString", date, {}, {}, string)}
StringConstructorPropertyDsps == {
    Property("prototype", Ctor("String"), Proto("String"))}
StringConstructorFunctionDsps == {
    Method("fromCharCode", Ctor("String"), {number}, {}, string)}
StringPropertyDsps == {
    Property("length", string, number),
    Property("__proto__", string, Proto("String")),
    Property("constructor", string, Ctor("String"))}
StringFunctionDsps == {
    Method("charAt", string, {number}, {}, string),
    Method("charCodeAt", string, {number}, {}, number),
    Method("concat", string, {string}, {}, string),
    Method("includes", string, {string, number}, {}, boolean),
    Method("endsWith", string, {string}, {number}, boolean),
    Method("indexOf", string, {string}, {number}, number),
    Method("lastIndexOf", string, {string}, {}, number),
    Method("match", string, {regexp}, {}, array),
    Method("normalize", string, {}, {}, undefined),
    Method("padEnd", string, {number}, {string}, string),
    Method("replace", string, {regexp, string}, {}, string),
    Method("search", string, {regexp}, {}, number),
    Method("split", string, {string}, {number}, array),
    Method("toLocaleLowerCase", string, {}, {}, string)}
RegExpConstructorPropertyDsps == {
    Property("prototype", Ctor("RegExp"), Proto("RegExp")),
    Property("$1", Ctor("RegExp"), string),
    Property("length", Ctor("RegExp"), number)}
RegExpPropertyDsps == {
    Property("flags", regexp, string), Property("global", regexp, boolean),
    Property("lastIndex", regexp, number),
    Property("__proto__", regexp, Proto("RegExp"))}
RegExpFunctionDsps == {
    Method("compile", regexp, {regexp}, {}, undefined),
    Method("exec", regexp, {string}, {}, array),
    Method("test", regexp, {string}, {}, boolean),
    Method("toString", regexp, {}, {}, string)}
ArrayConstructorPropertyDsps == {
    Property("prototype", Ctor("Array"), Proto("Array"))}
ArrayConstructorFunctionDsps == {
    Method("from", Ctor("Array"), {iterable}, {functionExp, any}, array),
    Method("isArray", Ctor("Array"), {any}, {}, boolean),
    Method("of", Ctor("Array"), {any}, {}, array)}
ArrayPropertyDsps == {
    Property("length", array, number),
    Property("constructor", array, Ctor("Array")),
    Property("__proto__", array, Proto("Array"))}
ArrayFunctionDsps == {
    Method("copyWithin", array, {number}, {}, array),
    Method("fill", array, {any, number}, {}, array),
    Method("pop", array, {}, {}, any),
    Method("push", array, {any}, {}, number),
    Method("reverse", array, {}, {}, array),
    Method("sort", array, {}, {functionExp}, array),
    Method("splice", array, {number}, {any}, array),
    Method("unshift", array, {}, {}, undefined),
    Method("concat", array, {any}, {}, array),
    Method("includes", array, {any}, {number}, boolean),
    Method("join", array, {}, {string}, string),
    Method("slice", array, {}, {number}, array),
    Method("toString", array, {}, {}, string),
    Method("indexOf", array, {any}, {number}, number),
    Method("entries", array, {}, {}, iterator),
    Method("every", array, {functionExp}, {}, boolean),
    Method("filter", array, {functionExp}, {}, array),
    Method("find", array, {functionExp}, {}, any),
    Method("findIndex", array, {functionExp}, {}, number),
    Method("forEach", array, {functionExp}, {}, undefined)}
TypedArrayConstructorPropertyDsps == {
    Property("prototype", Ctor("TypedArray"), Proto("TypedArray")),
    Property("BYTES_PER_ELEMENT", Ctor("TypedArray"), number),
    Property("name", Ctor("TypedArray"), string)}
TypedArrayConstructorFunctionDsps == {
    Method("from", Ctor("TypedArray"), {iterable}, {functionExp, any},
           typedarray),
    Method("of", Ctor("TypedArray"), {number}, {}, typedarray)}
TypedArrayPropertyDsps == {
    Property("length", typedarray, number),
    Property("constructor", typedarray, Ctor("TypedArray")),
    Property("buffer", typedarray, arraybuffer),
    Property("__proto__", typedarray, Proto("TypedArray"))}
TypedArrayFunctionDsps == {
    Method("copyWithin", typedarray, {number}, {}, typedarray),
    Method("entries", typedarray, {}, {}, iterator),
    Method("every", typedarray, {functionExp}, {}, boolean),
    Method("fill", typedarray, {number}, {}, undefined),
    Method("filter", typedarray, {functionExp}, {}, typedarray),
    Method("find", typedarray, {functionExp}, {}, number),
    Method("forEach", typedarray, {functionExp}, {}, undefined),
    Method("includes", typedarray, {number}, {}, boolean),
    Method("indexOf", typedarray, {number}, {}, number),
    Method("join", typedarray, {}, {string}, string),
    Method("reverse", typedarray, {}, {}, typedarray),
    Method("set", typedarray, {typedarray \cup array, number}, {}, undefined),
    Method("slice", typedarray, {}, {number}, typedarray),
    Method("sort", typedarray, {}, {functionExp}, typedarray),
    Method("toLocaleString", typedarray, {}, {}, string)}
MapConstructorPropertyDsps == {
    Property("prototype", Ctor("Map"), Proto("Map"))}
MapPropertyDsps == {
    Property("size", map, number), Property("constructor", map, Ctor("Map")),
    Property("__proto__", map, Proto("Map"))}
MapFunctionDsps == {
    Method("clear", map, {}, {}, undefined),
    Method("delete", map, {any}, {}, boolean),
    Method("entries", map, {}, {}, iterator),
    Method("forEach", map, {functionExp}, {}, undefined),
    Method("get", map, {any}, {}, any)}
SetConstructorPropertyDsps == {
    Property("prototype", Ctor("Set"), Proto("Set"))}
SetPropertyDsps == {
    Property("size", set, number), Property("constructor", set, Ctor("Set")),
    Property("__proto__", set, Proto("Set"))}
SetFunctionDsps == {
    Method("add", set, {any}, {}, set),
    Method("clear", set, {}, {}, undefined),
    Method("delete", set, {any}, {}, boolean),
    Method("entries", set, {}, {}, iterator),
    Method("forEach", set, {functionExp}, {}, undefined)}
WeakMapConstructorPropertyDsps == {
    Property("prototype", Ctor("WeakMap"), Proto("WeakMap"))}
WeakMapPropertyDsps == {
    Property("constructor", weakmap, Ctor("WeakMap")),
    Property("__proto__", weakmap, Proto("WeakMap"))}
WeakMapFunctionDsps == {
    Method("delete", weakmap, {object}, {}, boolean),
    Method("get", weakmap, {object}, {}, any),
    Method("set", weakmap, {object, any}, {}, weakmap)}
WeakSetConstructorPropertyDsps == {
    Property("prototype", Ctor("WeakSet"), Proto("WeakSet"))}
WeakSetPropertyDsps == {
    Property("constructor", weakset, Ctor("WeakSet")),
    Property("__proto__", weakset, Proto("WeakSet"))}
WeakSetFunctionDsps == {
    Method("delete", weakset, {object}, {}, boolean),
    Method("add", weakset, {object}, {}, weakset)}
ArrayBufferConstructorPropertyDsps == {
    Property("prototype", Ctor("ArrayBuffer"), Proto("ArrayBuffer"))}
ArrayBufferConstructorFunctionDsps == {
    Method("isView", Ctor("ArrayBuffer"), {any}, {}, boolean),
    Method("transfer", Ctor("ArrayBuffer"), {arraybuffer}, {number}, boolean)}
ArrayBufferPropertyDsps == {
    Property("constructor", arraybuffer, Ctor("ArrayBuffer")),
    Property("byteLength", arraybuffer, number),
    Property("__proto__", arraybuffer, Proto("ArrayBuffer"))}
ArrayBufferFunctionDsps == {
    Method("slice", arraybuffer, {number}, {}, arraybuffer)}
DataViewConstructorPropertyDsps == {
    Property("prototype", Ctor("DataView"), Proto("DataView"))}
DataViewPropertyDsps == {
    Property("constructor", dataview, Ctor("DataView")),
    Property("buffer", dataview, arraybuffer),
    Property("byteLength", dataview, number),
    Property("__proto__", dataview, Proto("DataView"))}
DataViewFunctionDsps == {
    Method("getInt8", dataview, {number}, {}, number),
    Method("setInt8", dataview, {number}, {}, undefined)}
ObjectConstructorPropertyDsps == {
    Property("prototype", Ctor("Object"), Proto("Object")),
    Property("length", Ctor("Object"), number)}
ObjectConstructorFunctionDsps == {
    Method("assign", Ctor("Object"), {object}, {}, object),
    Method("defineProperty", Ctor("Object"), {object,
           number \cup string \cup symbol, descriptor}, {}, object),
    Method("getOwnPropertyDescriptor", Ctor("Object"), {object,
           string \cup symbol}, {}, object),
    Method("getOwnPropertyNames", Ctor("Object"), {object}, {}, stringArray),
    Method("getOwnPropertySymbols", Ctor("Object"), {object}, {}, array),
    Method("getPrototypeOf", Ctor("Object"), {object}, {}, prototype),
    Method("isExtensible", Ctor("Object"), {object}, {}, boolean),
    Method("setPrototypeOf", Ctor("Object"), {object, object \cup null}, {},
           object)}
ObjectPropertyDsps == {
    Property("constructor", object, Ctor("Object")),
    Property("__proto__", object, Proto("Object"))}
ObjectFunctionDsps == {
    Method("__defineGetter__", object, {string, functionExp}, {}, undefined),
    Method("hasOwnProperty", object, {string}, {}, boolean),
    Method("isPrototypeOf", object, {object}, {}, boolean),
    Method("toString", object, {}, {}, string),
    Method("valueOf", object, {}, {}, any)}
IteratorFunctionDsps == {Method("next", iterator, {}, {}, object)}
==============================================================================
