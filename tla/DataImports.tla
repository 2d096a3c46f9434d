---------------------------- MODULE DataImports ----------------------------
(***************************************************************************)
(* The injection of imports and the parser of data files together: for     *)
(* each `use datac` of the spliced program injectDatacImports reads the    *)
(* file, has parseDatacRows turn it into rows, and puts their assignments  *)
(* in the place of the import, in the list that it runs over.              *)
(***************************************************************************)
EXTENDS FlibInject

CONSTANTS Keys, TailOf
VARIABLES doc, line, inBlock, rowBuf, rows   \* of parseDatacRows

parserVars == <<doc, line, inBlock, rowBuf, rows>>
Parser == INSTANCE DatacRows WITH at <- line

ASSUME KeysAssumption == TailOf \subseteq Keys \X Keys /\ \A k \in Keys : <<k, k>> \in TailOf
ASSUME DocumentsAssumption ==
  \A p \in Programs : \A f \in Files : \A i \in 1..Len(p[f].nodes) :
    p[f].nodes[i].kind = "datac" =>
      \A dir \in DOMAIN p[f].nodes[i].data :
        LET lines == p[f].nodes[i].data[dir].lines
        IN \A n \in 1..Len(lines) : lines[n] \in Parser!Line

ImportInit ==
  /\ Init
  /\ doc = Parser!NoDocument /\ line = 0
  /\ inBlock = FALSE /\ rowBuf = <<>> /\ rows = <<>>

(* injectFlibModules.                                                      *)
Splice ==
  /\ Skip \/ Reimport \/ CannotOpen \/ Enter \/ Return \/ ImportsDone
  /\ UNCHANGED parserVars

(* injectDatacImports.                                                     *)
Pass == PassNode /\ UNCHANGED parserVars
Read == IsData /\ Parser!Idle /\ Parser!Parses(DataFile) /\ UNCHANGED vars
Parse == ~ Parser!Idle /\ Parser!Next /\ UNCHANGED vars
Replace ==
  /\ ~ Parser!Idle /\ Parser!Finished
  /\ Expand(rows)
  /\ doc' = Parser!NoDocument /\ line' = 0
  /\ inBlock' = FALSE /\ rowBuf' = <<>> /\ rows' = <<>>

ImportNext == Splice \/ Pass \/ Read \/ Parse \/ Replace
ImportSpec == ImportInit /\ [][ImportNext]_<<vars, parserVars>>
FairImportSpec == ImportSpec /\ WF_<<vars, parserVars>>(ImportNext)

-----------------------------------------------------------------------------
(* Properties.                                                             *)

DataNodes == SelectSeq(prog[Root].nodes, LAMBDA n : n.kind = "datac" /\ Readable(n))
Written(n) == DatacNodes(n, Parser!AuthorsRows(n.data[prog[Root].dir]))

(* The assignments of a program are, in the order of its data imports, the *)
(* rows their authors wrote, each with its fields and their whole values,  *)
(* and behind them the list of just these rows; no import that can be read *)
(* is left, and none is expanded twice ("dict assignments + 1 list         *)
(* assignment").  It is about clean files; for others see the README.      *)
DataAsWritten ==
  Finished /\ (\A i \in 1..Len(DataNodes) : Parser!Clean(DataNodes[i].data[prog[Root].dir])) =>
    /\ \A i \in InResult({"datac"}) : ~ Readable(result[i])
    /\ SelectSeq(result, LAMBDA n : n.kind = "var" /\ "data" \in DOMAIN n)
         = FlattenSeq([i \in 1..Len(DataNodes) |-> Written(DataNodes[i])])
=============================================================================
