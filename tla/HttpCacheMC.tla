---------------------------- MODULE HttpCacheMC ----------------------------
(***************************************************************************)
(* Names for the instances of HttpCache, where lengths take one byte more  *)
(* from 3: two of the shortest ones, one whose value is too long to be     *)
(* sent together with a Max-Age, one whose length takes a byte more, and   *)
(* one that is too long to be asked for.                                   *)
(***************************************************************************)
EXTENDS HttpCache

MCNames == {<<1>>, <<2>>, <<1, 1>>, <<1, 1, 1>>, <<1, 1, 1, 1, 1>>}

Alike == Permutations(Threads)
============================================================================
