------------------------------- MODULE Weights -------------------------------
(***************************************************************************)
(* The tables of esweight.ts: the operators of esspecs.ts the builders may *)
(* use, under the names of the entries of Specs.  The weights themselves   *)
(* are left out: an operator of positive weight may be picked, and "throw",*)
(* the only one of weight 0, is not the only one of its entry.             *)
(***************************************************************************)
LiteralWeight == {"Boolean", "String", "Number", "Null", "RegExp", "Math"}
BinaryExpressionWeight == {"+", "-", "==", "in", "instanceof"}
LogicalExpressionWeight == {"&&"}
UnaryExpressionWeight == {"void", "delete", "!", "+", "typeof"}
UpdateExpressionWeight == {"++"}
NewExpressionWeight == {
    "Array", "ArrayBuffer", "SharedArrayBuffer", "DataView", "Date", "Error",
    "Int8Array", "Map", "WeakMap", "Set", "WeakSet", "Object", "Promise",
    "Proxy", "RegExp"}
MemberExpressionWeight == {"array", "typedarray", "object"}
ArrayExpressionWeight == {"Any", "Number"}
NumberConstructorPropertyWeight == {"prototype", "EPSILON"}
NumberConstructorFunctionWeight == {"isNaN", "parseFloat"}
NumberFunctionWeight == {"toExponential", "valueOf"}
MathPropertyWeight == {"E"}
MathFunctionWeight == {"abs", "random"}
DateConstructorPropertyWeight == {"prototype"}
DateConstructorFunctionWeight == {"now", "parse", "UTC"}
DatePropertyWeight == {"__proto__"}
DateFunctionWeight == {"getDate", "setDate", "toDateString"}
StringConstructorFunctionWeight == {"fromCharCode"}
StringPropertyWeight == {"length", "__proto__", "constructor"}
StringFunctionWeight == {
    "charAt", "charCodeAt", "concat", "includes", "endsWith", "indexOf",
    "lastIndexOf", "match", "normalize", "padEnd", "replace", "search",
    "split", "toLocaleLowerCase"}
RegExpConstructorPropertyWeight == {"prototype", "$1"}
RegExpPropertyWeight == {"flags", "global", "lastIndex", "__proto__"}
RegExpFunctionWeight == {"compile", "exec", "test", "toString"}
ArrayConstructorFunctionWeight == {"from", "isArray", "of"}
ArrayPropertyWeight == {"length", "constructor", "__proto__"}
ArrayFunctionWeight == {
    "copyWithin", "fill", "pop", "push", "reverse", "sort", "splice",
    "unshift", "concat", "includes", "join", "slice", "toString", "indexOf",
    "entries", "every", "filter", "find", "findIndex", "forEach"}
TypedArrayConstructorPropertyWeight == {
    "prototype", "BYTES_PER_ELEMENT", "name"}
TypedArrayConstructorFunctionWeight == {"from", "of"}
TypedArrayProepertyWeight == {"length", "constructor", "buffer", "__proto__"}
TypedArrayFunctionWeight == {
    "copyWithin", "entries", "every", "fill", "filter", "find", "forEach",
    "includes", "indexOf", "join", "reverse", "set", "slice", "sort",
    "toLocaleString"}
MapConstructorPropertyWeight == {"prototype"}
MapPropertyWeight == {"size", "constructor", "__proto__"}
MapFunctionWeight == {"clear", "delete", "entries", "forEach", "get"}
SetConstructorPropertyWeight == {"prototype"}
SetPropertyWeight == {"size", "constructor", "__proto__"}
SetFunctionWeight == {"add", "clear", "delete", "entries", "forEach"}
WeakMapConstructorPropertyWeight == {"prototype"}
WeakMapPropertyWeight == {"constructor", "__proto__"}
WeakMapFunctionWeight == {"delete", "get", "set"}
WeakSetConstructorPropertyWeight == {"prototype"}
WeakSetPropertyWeight == {"constructor", "__proto__"}
WeakSetFunctionWeight == {"delete", "add"}
ArrayBufferConstructorPropertyWeight == {"prototype"}
ArrayBufferConstructorFunctionWeight == {"isView", "transfer"}
ArrayBufferPropertyWeight == {"constructor", "byteLength", "__proto__"}
ArrayBufferFunctionWeight == {"slice"}
DataViewConstructorPropertyWeight == {"prototype"}
DataViewPropertyWeight == {"constructor", "buffer", "byteLength", "__proto__"}
DataViewFunctionWeight == {"getInt8", "setInt8"}
ObjectConstructorPropertyWeight == {"prototype", "length"}
ObjectConstructorFunctionWeight == {
    "assign", "defineProperty", "getOwnPropertyDescriptor",
    "getOwnPropertyNames", "getOwnPropertySymbols", "getPrototypeOf",
    "isExtensible", "setPrototypeOf"}
ObjectPropertyWeight == {"constructor", "__proto__"}
ObjectFunctionWeight == {
    "__defineGetter__", "hasOwnProperty", "isPrototypeOf", "toString",
    "valueOf"}
IteratorFunctionWeight == {"next"}
==============================================================================
