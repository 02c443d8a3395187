------------------------------ MODULE MCBuilder ------------------------------
EXTENDS Builder

FewTypes == {array, typedarray, any, object, dataview}
FewOps == {"Number", "BuiltinConstructor", "array", "typedarray", "object",
           "+", "++", "&&", "defineProperty", "every", "length", "__proto__",
           "Int8Array", "Any"}
=============================================================================
