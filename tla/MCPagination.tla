---------------------------- MODULE MCPagination ----------------------------
(***************************************************************************)
(* A small instance of Pagination for TLC.  Lists end within a batch and   *)
(* with it, within a page and with it, and have too few pages for the fast *)
(* arrows or enough; the long ones surround the size of a byte.            *)
(***************************************************************************)
EXTENDS Pagination

PagerOf(kind, sizes, perPage) ==
    {[kind |-> kind, items |-> n, perPage |-> perPage] : n \in sizes}

SmallPagers ==
    PagerOf("sliced", {1, 3, 12}, 2) \cup PagerOf("indexed", {2, 7}, 1)
    \cup PagerOf("scores", {1, 25, 50, 51, 99, 100, 101}, 25)
    \cup PagerOf("scores", {100, 119}, 15)
    \cup PagerOf("beatmapset", {1, 2, 7}, 1)

LargePagers == PagerOf("scores", {60, 120, 233, 256}, 1)

AllPagers == SmallPagers \cup LargePagers
=============================================================================
