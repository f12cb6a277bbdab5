----------------------------- MODULE MCAntivirus -----------------------------
(* Instances of Antivirus: processes and scans are interchangeable; contents  *)
(* are a few documents and archives.                                          *)
EXTENDS Antivirus, TLC

ActorSymmetry == Permutations(Processes) \cup Permutations(Scans)

Entry(ext, size, name, rest) == [ext |-> ext, size |-> size, name |-> name, rest |-> rest]

Text == Entry("txt", 200, 8, 0)
Tool == Entry("exe", 100, 7, 0)

As(buffer, ext, mime) == buffer @@ [ext |-> ext, mime |-> mime]
Plain(magic) == [len |-> 100, magic |-> magic, ends |-> <<>>, heads |-> <<>>]
Office(entries) == As(Buffer([entries |-> entries, data |-> 40, comment |-> 0, decoy |-> FALSE, cut |-> 0]), "zip", "zip")

MCContents ==
    "good" :> Office(<<Text, Text>>) @@ "bad"    :> As(Plain("pdf"), "pdf", "pdf")
 @@ "odd"  :> As(Plain("png"), "jpeg", "none") @@ "packed" :> Office(<<Text, Tool>>)
=============================================================================
