---------------------------- MODULE MCNavigation ----------------------------
(* What the users of each run of Navigation do, and what they look at. *)
EXTENDS Navigation

\* Six bytes in which a pattern overlaps itself.
Memories == {<<1, 1, 1, 0, 1, 1>>, <<0, 1, 0, 0, 1, 0>>}
Sought   == {<<1, 1>>, <<0, 1, 0>>}

Region(base, size, free) == [base |-> base, size |-> size, free |-> free]

\* Free regions first, between and last; a space with a region at kUserMax, and
\* one that ends before.
AddressSpaces ==
    {<<Region(0, 1, TRUE), Region(1, 1, FALSE), Region(2, 2, TRUE), Region(4, 1, FALSE),
       Region(5, 1, FALSE), Region(6, 2, FALSE)>>,
     <<Region(0, 3, FALSE), Region(3, 2, TRUE)>>}

User(does, longest, targets, patterns, contents, spaces) ==
    [does |-> does, history |-> longest, targets |-> targets, rips |-> {0, 2},
     patterns |-> patterns, contents |-> contents, spaces |-> spaces]

Zeros == {[a \in Addr |-> 0]}

Follower == User({"goto", "keys"}, 3, {1, 3, 5}, {}, Zeros, {<<>>})
Dumper   == User({"view", "format"}, 0, {1, 5}, {}, Memories, {<<>>})
Searcher == User({"search", "poke", "proc", "view"}, 0, {1, 4}, Sought, Memories, {<<>>})
Mapper   == User({"memmap", "proc"}, 0, {}, {}, Zeros, AddressSpaces)
Editor(does) == User(does, 0, {1, 3}, Sought, Memories, {<<>>})

Everyone == {Follower, Dumper, Searcher, Mapper,
             Editor({"reg", "view", "search"})}
=============================================================================
