------------------------------ MODULE MCScript ------------------------------
(* Instances of ScriptLayout for TLC: scripts that reach each rule, linked  *)
(* with two modules whose location counters have several sizes.             *)
EXTENDS ScriptLayout

Align(e, n) == [op |-> "align", a |-> e, b |-> Num(n)]
Fun(f, n) == [op |-> f, name |-> n]
Cond(a, b, c) == [op |-> "cond", a |-> a, b |-> b, c |-> c]
Plain(n, e) == Assign("plain", <<n>>, e)
Provide(n, e) == Assign("provide", <<n>>, e)
Hidden(n, e) == Assign("hidden", <<n>>, e)
Move(e) == Assign("plain", <<".">>, e)
All(id, secs) == [k |-> "input", id |-> id, star |-> TRUE, files |-> {}, secs |-> secs]
Only(id, m, secs) == [k |-> "input", id |-> id, star |-> FALSE, files |-> {m}, secs |-> secs]
Onepage(body) == [k |-> "onepage", body |-> body]
Data(size, e) == [k |-> "data", size |-> size, e |-> e]
Fill(e) == [k |-> "fill", e |-> e]
Require(e) == [k |-> "assert", e |-> e]
Include(f) == [k |-> "include", file |-> f]
Format(f) == [k |-> "format", format |-> f]
Memory(rs) == [k |-> "memory", regions |-> rs]
Region(n, o, l) == [name |-> n, origin |-> o, length |-> l]

Text == {<<0, FALSE>>, <<1, FALSE>>}
Zero == {<<2, FALSE>>}
Vars == {<<3, FALSE>>}
Commons == {<<seg, TRUE>> : seg \in Segs}

One(commands) == [main |-> commands]
Simple(n) == Section(n, NoE, <<All(1, Text)>>)

(* Separate load addresses, regions, fill, records. *)
Rom ==
  [main |-> <<
    Memory(<<Region("ROM", Num(34), Num(24)), Region("RAM", Num(2), Num(28))>>),
    Format("srec"), Fill(Num(-1)), Include("rom")>>,
   rom |-> <<
    [Section(".text", NoE, <<Only(1, 2, Text), All(2, Text)>>) EXCEPT !.region = "ROM"],
    [Section(".data", NoE, <<All(3, Zero \union Vars), Data(1, Num(255)), Move(Align(Dot, 4))>>)
       EXCEPT !.region = "RAM", !.lmaregion = "ROM", !.fill = Num(7)],
    [Section(".bss", NoE, <<All(4, Commons)>>) EXCEPT !.region = "RAM", !.noload = TRUE],
    Require(Bin("<", Fun("SIZEOF", ".data"), Num(16)))>>]

(* ONEPAGE blocks with alignment, a fill byte and symbols. *)
Pages(n) ==
  One(<<Plain("base", Num(5)),
    [Simple(".text") EXCEPT !.addr = Num(32)],
    [Section(".data", Sym(<<"base">>),
      <<Fill(Num(9)),
        Onepage(<<Provide("zero", Dot), All(2, Zero), Move(Align(Dot, n)), All(3, Vars),
                  Hidden("last", Dot)>>),
        All(4, Commons), Plain("top", Sym(<<"last">>))>>) EXCEPT !.subalign = Num(2)]>>)

(* A ONEPAGE block that alignment makes larger at its second place. *)
Grows ==
  One(<<Simple(".text"),
    Section(".data", Num(7), <<Onepage(<<All(2, Zero), Move(Align(Dot, 4)), All(3, Vars)>>)>>)>>)

(* Symbols and addresses used before they are known. *)
Forward ==
  One(<<Format("binary"),
    [Section(".vec", Bin("+", Fun("ADDR", ".text"), Sym(<<"gap">>)), <<Data(2, Sym(<<"f">>))>>)
       EXCEPT !.at = Bin("+", Fun("LOADADDR", ".data"), Num(30)), !.align = Num(2)],
    [Simple(".text") EXCEPT !.addr = Num(4)],
    Section(".data", NoE, <<All(2, Vars), Only(3, 1, Zero)>>),
    Plain("gap", Bin("+", Fun("SIZEOF", ".text"), Bin("*", Num(2), Fun("SIZEOF", ".data"))))>>)

(* Regions defined by later regions. *)
Chain ==
  One(<<Memory(<<Region("A", Fun("ORIGIN", "B"), Num(20)), Region("B", Fun("ORIGIN", "C"), Num(20)),
                 Region("C", Num(8), Fun("LENGTH", "A"))>>),
    [Simple(".text") EXCEPT !.region = "A"],
    Section(".data", Num(40), <<All(2, Zero \union Vars)>>)>>)

(* Sections out of order, one of them empty. *)
Empties(a) ==
  One(<<[Simple(".text") EXCEPT !.addr = Num(16)],
        Section(".empty", a, <<>>), Section(".more", NoE, <<Data(1, Num(1))>>),
        Section(".data", Num(40), <<All(2, Zero \union Vars)>>)>>)

Same ==
  One(<<[Simple(".text") EXCEPT !.addr = Num(16)],
        Section(".data", Num(17), <<All(2, Zero \union Vars)>>)>>)

(* Pieces that no statement matches, with and without a "*" section. *)
Orphaned(noload) ==
  One(<<Section(".first", NoE, <<Only(1, 1, Text)>>),
        Section(".text", NoE, <<Only(2, 2, Text \ {<<1, FALSE>>})>>),
        [Section(".zero", Num(24), <<All(3, Zero)>>) EXCEPT !.noload = noload],
        Section(".data", NoE, <<Only(4, 1, Vars), Data(2, [op |-> "neg", a |-> Num(3)])>>)>>)

(* Values that depend on each other; an assertion that fails; division.     *)
Restless == One(<<Plain("a", Bin("-", Num(1), Sym(<<"b">>))), Plain("b", Sym(<<"a">>)), Simple(".text")>>)
Flips == One(<<[Simple(".text") EXCEPT !.addr = Cond(Bin("==", Fun("ADDR", ".data"), Num(8)), Num(0), Num(8))],
               Section(".data", Fun("ADDR", ".text"), <<>>)>>)
Asserts(e) == One(<<Simple(".text"), Require(e)>>)

(* Errors while reading. *)
Itself == [main |-> <<Simple(".text"), Include("more")>>, more |-> <<Include("more")>>]
Missing == [main |-> <<Include("none")>>]
Twice == One(<<Simple(".text"), Simple(".text")>>)
Unknown == One(<<[Simple(".text") EXCEPT !.region = "ROM"]>>)
DotAtTop == One(<<Assign("provide", <<".">>, Num(1))>>)
DotInside == One(<<Section(".text", Num(0), <<Onepage(<<Assign("hidden", <<".">>, Num(1))>>)>>)>>)
Nothing == One(<<>>)

ScriptFiles(id) ==
  CASE id = "rom" -> Rom
    [] id = "pages2" -> Pages(2)
    [] id = "pages4" -> Pages(4)
    [] id = "forward" -> Forward
    [] id = "chain" -> Chain
    [] id = "empty" -> Empties(NoE)
    [] id = "emptylow" -> Empties(Num(4))
    [] id = "overlap" -> Empties(Num(16))
    [] id = "same" -> Same
    [] id = "grows" -> Grows
    [] id = "orphans" -> Orphaned(FALSE)
    [] id = "orphansnoload" -> Orphaned(TRUE)
    [] id = "restless" -> Restless
    [] id = "flips" -> Flips
    [] id = "true" -> Asserts(Bin("/", Bin("-", Num(1), Num(4)), Num(2)))
    [] id = "false" -> Asserts([op |-> "!", a |-> Fun("DEFINED", <<"f">>)])
    [] id = "zero" -> Asserts(Bin("%", Num(1), Bin("MAX", Num(0), Bin("MIN", Num(0), Num(3)))))
    [] id = "logic" -> Asserts(Bin("&&", Bin("<=", Num(1), Dot), Bin("||", Num(0), Bin("<", Dot, Num(60)))))
    [] id = "itself" -> Itself
    [] id = "missing" -> Missing
    [] id = "twice" -> Twice
    [] id = "unknown" -> Unknown
    [] id = "dot" -> DotAtTop
    [] id = "dotinside" -> DotInside
    [] id = "nothing" -> Nothing

Sizes(a, b, c, d) == [seg \in Segs |-> CASE seg = 0 -> a [] seg = 1 -> b [] seg = 2 -> c [] seg = 3 -> d]
Symbol(n, kind, m, seg, value) == [name |-> n, kind |-> kind, mod |-> m, seg |-> seg, value |-> value]
Tab ==
  <<Symbol(<<"f">>, "exp", 2, 0, 1), Symbol(<<"c">>, "com", 1, 3, 5), Symbol(<<"d">>, "com", 1, 3, 1),
    Symbol(Auto("start", ".data"), "imp", 1, 0, 0), Symbol(Auto("end", ".text"), "imp", 1, 0, 0),
    Symbol(Auto("load", ".data"), "imp", 2, 0, 0), Symbol(<<"k">>, "abs", 2, 0, 3)>>
Clash == <<Symbol(<<"base">>, "exp", 1, 0, 0)>>
Undefined == <<Symbol(<<"u">>, "imp", 1, 0, 0), Symbol(<<"zero">>, "imp", 2, 0, 0)>>

Opt == [binary |-> FALSE, sepid |-> FALSE, tgiven |-> FALSE, tbase |-> 0, dbase |-> 0,
        heap |-> 0, orphanerror |-> FALSE]
Job(id, opt, mods, tab) == [files |-> id, opt |-> opt, mods |-> mods, tab |-> tab, defs |-> <<>>]

SomeMods ==
  {<<Sizes(a, 0, c, d), Sizes(e, f, 0, g)>> : a \in {1, 4}, c \in {0, 2}, d \in {0, 3, 7}, e \in {0, 2},
                                            f \in {0, 1}, g \in {0, 1}}
OneMods == {<<Sizes(1, 0, 2, 3), Sizes(2, 1, 0, 1)>>, <<Sizes(4, 0, 0, 0), Sizes(0, 0, 1, 7)>>}

GoodScripts == {"rom", "pages2", "pages4", "forward", "empty", "orphans", "orphansnoload"}
OtherScripts ==
  {"chain", "emptylow", "overlap", "same", "grows", "restless", "flips", "true", "false", "zero", "logic",
   "itself", "missing", "twice", "unknown", "dot", "dotinside", "nothing"}
DefaultOpts ==
  {Opt, [Opt EXCEPT !.binary = TRUE], [Opt EXCEPT !.sepid = TRUE, !.tgiven = TRUE, !.tbase = 8],
   [Opt EXCEPT !.tgiven = TRUE, !.tbase = 5, !.dbase = 30, !.sepid = TRUE]}

SomeJobs ==
  {Job(id, Opt, mods, Tab) : id \in GoodScripts, mods \in SomeMods}
  \union {Job(id, Opt, mods, Tab) : id \in OtherScripts, mods \in OneMods}
  \union {Job("default", opt, mods, Tab) : opt \in DefaultOpts, mods \in SomeMods}
  \union {Job("pages2", Opt, mods, tab) : mods \in OneMods, tab \in {Clash, Undefined}}
  \union {Job(id, [Opt EXCEPT !.tgiven = TRUE], mods, Tab) : id \in {"rom", "pages2"}, mods \in OneMods}
  \union {Job("orphans", [Opt EXCEPT !.orphanerror = TRUE], mods, Tab) : mods \in OneMods}
  \union {[Job("forward", Opt, mods, Tab) EXCEPT !.defs = <<Plain("gap", Num(3))>>] : mods \in OneMods}

PageJobs == {Job(id, Opt, mods, Tab) : id \in {"pages4", "grows"}, mods \in OneMods}
=============================================================================
