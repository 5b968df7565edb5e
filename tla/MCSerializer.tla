---------------------------- MODULE MCSerializer ----------------------------
(* Serializer on a small instance: a class, one that extends it and one      *)
(* without the methods the decorator asks for, in versions of the code that  *)
(* give the first two different names, the same name, the names swapped, or  *)
(* decorate the wrong ones.                                                  *)
EXTENDS Serializer, TLC

CONSTANTS Base, Derived, Other

Hierarchy == Base :> {Base} @@ Derived :> {Base, Derived} @@ Other :> {Other}

Versions ==
  {Base :> "a" @@ Derived :> "b" @@ Other :> None,
   Base :> "a" @@ Derived :> "a" @@ Other :> None,
   Base :> "b" @@ Derived :> "a" @@ Other :> None,
   Base :> "a" @@ Derived :> None @@ Other :> "b"}

Symmetry == Permutations(Process)
=============================================================================
