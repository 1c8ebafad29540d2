--------------------------- MODULE SolverInterface ---------------------------
(***************************************************************************)
(* What stands between the encoder and its solver: the __interfaceSolver__ *)
(* functions of sat/encoding.cpp with SatInterface and, for -smt,          *)
(* SmtInterface.                                                           *)
(*                                                                         *)
(* The SAT solver knows a variable by its number.  z3 knows a constant by  *)
(* its text: two variables with one text are one constant, and a variable  *)
(* without an entry in the table of texts cannot be asserted.  The record  *)
(* enc of the encoder keeps                                                *)
(*   smt         the option    next  the next variable number              *)
(*   dict        number -> text (only with -smt)                           *)
(*   cls         the clauses asserted, over numbers or texts               *)
(*   asmpts      the assumptions of the coming or the last solve           *)
(*   numAsmpts   assumptions since the last solve                          *)
(*   qs, newFacts, prim, nonprim  see module Encoding                      *)
(* A literal is <<positive, variable>>, a clause a set of literals.        *)
(***************************************************************************)
EXTENDS FactAnalysis

NewEncoder(smt) ==
    [smt |-> smt, next |-> 1, dict |-> <<>>, cls |-> {},
     asmpts |-> {}, numAsmpts |-> 0, qs |-> {}, newFacts |-> {}, prim |-> {}, nonprim |-> {}]

-----------------------------------------------------------------------------
(* The texts                                                               *)

\* The name a q-constant gets when it is created, as the SMT interface spells
\* it; the hash of the domain is the domain.
DomainHash(domain) == FoldSet(LAMBDA c, text : text \o c[1], "", domain)
QConstantText(q) ==
    "Q_" \o ToString(q[1]) \o "-" \o ToString(q[2]) \o "_" \o q[3] \o "%" \o ToString(q[4])
         \o "_" \o DomainHash(q[5])
ArgText(t) == IF IsQConstant(t) THEN QConstantText(t) ELSE t[1]
\* Names::to_SMT_string
SmtString(sig) == FoldLeft(LAMBDA text, t : text \o "-" \o ArgText(t), sig[1], Args(sig))

\* Variant: the position does not enter the text.
TextOfLayer(sig, l, p) == SmtString(sig) \o "__" \o ToString(l)
\* Two variables are told apart by their signature and their position.
FullName(sig, l, p) == SmtString(sig) \o "__" \o ToString(l) \o "_" \o ToString(p)

\* The texts of substitution and equality variables say all there is to say
\* about them: they are declared wherever they are used. (The code writes the
\* identifiers of the q-constants of an equality, here their names.)
NoText == ""
SubstitutionText(q, c) == SmtString(<<"__SUBSTITUTE___", <<q, c>>>>)
EqualityText(q, r) == "__QCONST_EQUALITY___" \o QConstantText(q) \o "_" \o QConstantText(r)
TextOf(dict, var) ==
    CASE Len(var) = 2 -> SubstitutionText(var[1], var[2])
      [] Len(var) = 3 -> EqualityText(var[1], var[2])
      [] var \in DOMAIN dict -> dict[var]
      [] OTHER -> NoText

-----------------------------------------------------------------------------
(* The calls                                                               *)

\* addVar: an entry once made stays.
AddVar(enc, var, sig, l, p) ==
    IF ~enc.smt \/ var \in DOMAIN enc.dict THEN enc
    ELSE [enc EXCEPT !.dict = (var :> FullName(sig, l, p)) @@ @]
NextVar(enc) == [enc EXCEPT !.next = @ + 1]
NewVar(enc, sig, l, p) == NextVar(AddVar(enc, <<enc.next>>, sig, l, p))

\* What the solver knows a variable by.
Term(enc, var) == IF enc.smt THEN TextOf(enc.dict, var) ELSE var
Terms(enc, lits) == {<<lit[1], Term(enc, lit[2])>> : lit \in lits}
\* addClause, or appendClause and endClause
AddClausesTo(enc, clauses) ==
    [enc EXCEPT !.cls = @ \cup (IF enc.smt THEN {Terms(enc, c) : c \in clauses} ELSE clauses)]

\* assume: the first assumption after a solve forgets the ones before it.
Assume(enc, lits) ==
    [enc EXCEPT !.asmpts = (IF enc.numAsmpts = 0 THEN {} ELSE @) \cup Terms(enc, lits),
                !.numAsmpts = @ + Cardinality(lits)]
\* solve: what the solver is asked, and what is left of the assumptions.
LastAssumptions(enc) == IF enc.numAsmpts = 0 THEN {} ELSE enc.asmpts
Question(enc) == enc.cls \cup {{lit} : lit \in LastAssumptions(enc)}
Solved(enc) == [enc EXCEPT !.asmpts = LastAssumptions(enc), !.numAsmpts = 0]

\* holds: the variables that a model makes true, among those that are read.
HeldIn(enc, true, read) == IF enc.smt THEN {v \in read : Term(enc, v) \in true} ELSE true
=============================================================================
