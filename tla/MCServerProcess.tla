--------------------------- MODULE MCServerProcess ---------------------------
(* An instance of ServerProcess.  Sizes of archives are scaled down.          *)
EXTENDS ServerProcess, TLC

FiveWorkloads == {{k} : k \in Kinds}

Entry(ext, size, name, rest) == [ext |-> ext, size |-> size, name |-> name, rest |-> rest]

Text  == Entry("txt", 200, 8, 0)
Extra == Entry("xml", 300, 12, 20) \* with extra fields and a comment
Large == Entry("txt", 2500, 9, 4)
Tool  == Entry("exe", 100, 7, 0)

Listings == UNION {[1..n -> {Text, Extra, Large, Tool}] : n \in 0..2} \cup {<<Text, Extra, Text>>}

Archive(entries, comment, decoy, cut) ==
    [entries |-> entries, data |-> 40, comment |-> comment, decoy |-> decoy, cut |-> cut]

\* Comments of 0 to 60 bytes, one of them with the bytes of an end record
\* inside, and archives that lack some of their last bytes.
MCArchives ==
    {Archive(l, c, FALSE, x) : l \in Listings, c \in {0, 30}, x \in {0, 1, 40}}
    \cup {Archive(l, 60, TRUE, 0) : l \in Listings}
=============================================================================
