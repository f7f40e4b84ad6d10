----------------------------- MODULE MCArUpdate -----------------------------
(* Instances of ArUpdate for TLC: members x and y in the archive, x2 a new  *)
(* and shorter version of x, z a new member.                                *)
EXTENDS ArUpdate

CONSTANTS x, x2, y, z

Blocks2(m) == IF m = x THEN 2 ELSE 1

(* The cells of an archive with these members. *)
Image(s) ==
  LET image[i \in 0..Len(s)] ==
        IF i = 0 THEN <<Magic>>
        ELSE image[i - 1] \o [j \in 1..(Size(s[i]) + 1) |-> Cell(s[i], j - 1)]
  IN  image[Len(s)]

WholeArchive == {Image(<<x, y>>)}
AnyArchive ==     \* also those a killed creation or quick append left
  {NoFile, <<>>, Image(<<x, y>>), <<Magic, Cell(x, 0)>>,
   <<Magic, Cell(x, 0), Cell(y, 0), Cell(y, 1)>>}

Edit(drop, add) == [kind |-> "edit", drop |-> drop, add |-> add]
Quick(add) == [kind |-> "quick", drop |-> {}, add |-> add]

Replace == Edit({x}, <<x2>>)
Delete == Edit({y}, <<>>)
Insert == Edit({}, <<z>>)
EditOps == {Replace, Delete, Insert}
QuickOps == {Quick(<<z>>), Quick(<<z, x2>>)}
AnyOps == {Replace, Delete, Quick(<<z>>)}
=============================================================================
