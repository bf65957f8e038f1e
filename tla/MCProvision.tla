---------------------------- MODULE MCProvision ----------------------------
(***************************************************************************)
(* Writing a device's storage from a description: reading the description  *)
(* and laying it out (IdpLayout), provisioning (IdpProvision), and the     *)
(* check of the written disk against a block map (BlockMap).  What they    *)
(* share is the list of partitions that IdpLayout is shown to hand over    *)
(* (HandedOver) and IdpProvision takes as given, so one behaviour          *)
(* exercises one of them, the one in focus.                                *)
(***************************************************************************)
EXTENDS MCIdpProvision, IdpLayout, BlockMap

\* Descriptions, as the JSON they are; an object's members in order of name.
MCMembers == <<"A", "B", "attributes", "encrypted", "expand-to-fit", "image", "luks2", "partitions", "slots", "system_type">>
Val(x) == [t |-> "val", v |-> x]
Obj(f) == [t |-> "obj", o |-> f, keys |-> SelectSeq(MCMembers, LAMBDA k : k \in DOMAIN f)]
Arr(s) == [t |-> "arr", a |-> s]
Part(x) == Obj([image |-> Val(x)])
Grow(x) == Obj([image |-> Val(x)] @@ ("expand-to-fit" :> Val("true")))
Attributes == Obj("attributes" :> Obj("system_type" :> Val("")))
PartsOf(s) == "partitions" :> Arr(s)
SlotsOf(a, b) == "slots" :> Obj("A" :> Obj(a) @@ "B" :> Obj(b))
Crypt(e, f) == "encrypted" :> Obj("luks2" :> Val(e) @@ f)
Plain == [x \in {"a", "b", "c"} |-> [size |-> CASE x = "a" -> 3 [] x = "b" -> 4 [] OTHER -> 6, listed |-> TRUE]]
Desc(label, es) == [ig |-> 2, pmap |-> 1, system |-> "slotted", label |-> label, align |-> 4, storage |-> "emmc", size |-> 9,
   map |-> Arr(<<Attributes>> \o es), images |-> Plain]
MCDescs ==
  [flat |-> Desc("gpt", <<Obj(PartsOf(<<Part("a"), Grow("b")>>))>>),
   grows |-> Desc("dos", <<Obj(PartsOf(<<Grow("a"), Part("b")>>))>>),
   slotted |-> Desc("dos", <<Obj(PartsOf(<<Part("a")>>)), Obj(SlotsOf(PartsOf(<<Part("b")>>), PartsOf(<<Part("c")>>)))>>),
   sealed |-> Desc("gpt", <<Obj(PartsOf(<<Part("a")>>)), Obj(Crypt("partitioned", PartsOf(<<Part("b"), Part("c")>>))), Obj(PartsOf(<<Part("c")>>))>>),
   sealedslots |-> Desc("gpt", <<Obj(Crypt("partitioned", SlotsOf(PartsOf(<<Part("a")>>), PartsOf(<<Part("b")>>)) @@ "expand-to-fit" :> Val("true")))>>),
   slotssealed |-> Desc("gpt", <<Obj(SlotsOf(Crypt("raw", PartsOf(<<Part("a")>>)), Crypt("raw", PartsOf(<<Part("b")>>))) @@ PartsOf(<<Part("c")>>))>>),
   nosize |-> [Desc("gpt", <<Obj(PartsOf(<<Part("a"), Part("b")>>))>>) EXCEPT !.images["a"].size = 0],
   same |-> Desc("gpt", <<Obj(SlotsOf(PartsOf(<<Part("a")>>), PartsOf(<<Part("a"), Part("b")>>)))>>),
   growsinside |-> Desc("gpt", <<Obj(Crypt("partitioned", PartsOf(<<Grow("a"), Part("b")>>)))>>),
   five |-> Desc("dos", <<Obj(PartsOf(<<Part("a"), Part("a"), Part("a"), Part("a"), Part("b")>>))>>),
   noimage |-> Desc("gpt", <<Obj(PartsOf(<<Part("d")>>))>>),
   badluks |-> Desc("gpt", <<Obj(Crypt("lvm", PartsOf(<<Part("a")>>)))>>),
   empty |-> Desc("gpt", <<>>),
   old |-> [Desc("gpt", <<>>) EXCEPT !.pmap = 2],
   floppy |-> [Desc("gpt", <<>>) EXCEPT !.storage = "floppy"]]

\* All the values there are, eight levels deep.
MCNodes ==
  LET level[k \in 0 .. 8] ==
        IF k = 0 THEN {d.map : d \in Range(MCDescs)} ELSE UNION {Within(n) : n \in level[k - 1]}
  IN UNION Range(level)

\* The values under which the walk finds nothing; with them the descriptions are
\* as HandedOverWhole of StorageProofs asks.
Inert(ns) == {n \in ns : Unmarked(n) /\ Within(n) \subseteq ns}
MCLeaves == LET level[k \in 0 .. 8] == IF k = 0 THEN MCNodes ELSE Inert(level[k - 1]) IN level[8]
ASSUME DescsAreWellShaped == WellShaped(MCLeaves)

\* Block maps: two ranges, one range, one past the end, one that is empty, none,
\* and one as long as block numbers are wide.
Rg(f, l, s) == [first |-> f, last |-> l, sum |-> s]
MCMaps == {<<Rg(0, 0, <<"a">>), Rg(1, 1, <<"b">>)>>, <<Rg(0, 1, <<"a", "a">>)>>,
  <<Rg(1, 2, <<"a", "a">>)>>, <<Rg(1, 0, <<>>)>>, <<>>, <<Rg(0, 3, <<"a", "a", "a", "a">>)>>}
----------------------------------------------------------------------------
VARIABLE focus

InFocus(c) == focus = c /\ UNCHANGED focus

ProvisionInit ==
  /\ focus \in {"idp", "layout", "bmap"}
  /\ Init /\ (focus # "idp" => table = None)
  /\ LayoutInit /\ (focus # "layout" => desc = "empty" /\ capacity = 16)
  /\ BlockMapInit /\ (focus # "bmap" => medium["x"][0] = "a")

ProvisionNext ==
  \/ InFocus("idp") /\ Next /\ UNCHANGED <<ilVars, mapVars>>
  \/ InFocus("layout") /\ LayoutNext /\ UNCHANGED <<vars, mapVars>>
  \/ InFocus("bmap") /\ BlockMapNext /\ UNCHANGED <<vars, ilVars>>

ProvisionSpec ==
  /\ ProvisionInit /\ [][ProvisionNext]_<<focus, vars, ilVars, mapVars>>
  \* LayoutFairness and BlockMapFairness, each while it is in focus.
  /\ WF_ilVars(focus = "layout" /\ LayoutStep)
  /\ WF_mapVars(focus = "bmap" /\ VerifyStep)

----------------------------------------------------------------------------
\* idpinit's walk of the description and bmap-verify's of the ranges both end,
\* whatever the description nests and wherever the ranges lie.
EveryCommandEnds == DescriptionAnswered /\ VerifyEnds
============================================================================
