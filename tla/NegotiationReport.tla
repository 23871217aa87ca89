------------------------- MODULE NegotiationReport -------------------------
(***************************************************************************)
(* negotiation_report.py: what the Negotiation Report PDF says of a         *)
(* requisition's lines, the tenant's catalogue and the total of the order.  *)
(*                                                                         *)
(* Money is an integer number of 1/200 of a currency unit, in which the      *)
(* markups of the code (whole per cents) and the halved counter-offer are    *)
(* exact: the rounding of the floats and of their two printed decimals is    *)
(* left out, as are token costs, durations and layout.                      *)
(***************************************************************************)
EXTENDS Integers, Sequences, Functions

Quadrant == {"non_critical", "leverage", "bottleneck", "strategic"}
Uncategorized == "uncategorized"

(* A line item has an item and a total, in currency units; a catalogue has
   the category of the items it knows, the quadrant of the categories it
   knows, and the qualified suppliers of a category, in its order.         *)
CategoryOf(cat, line) ==
  IF line.item \in DOMAIN cat.category THEN cat.category[line.item] ELSE Uncategorized

QuadrantOf(cat, c) ==
  IF c \in DOMAIN cat.quadrant THEN cat.quadrant[c] ELSE "non_critical"

(* Per cent over the negotiated total at which the first quote is put; a
   quadrant it does not know is taken for the default.                     *)
OpeningMarkup(quadrant) ==
  CASE quadrant = "leverage" -> 10
    [] quadrant = "bottleneck" -> 6
    [] quadrant = "strategic" -> 4
    [] OTHER -> 3

(* What the lines at some positions come to. *)
SumTotals(lines, positions) ==
  SumFunctionOnSet([i \in DOMAIN lines |-> lines[i].total], positions)

(* Faulty variant: a category is new when the line before has another one. *)
OpeningsByRun(cat, lines) ==
  {i \in DOMAIN lines :
     \A j \in DOMAIN lines : j + 1 = i => CategoryOf(cat, lines[j]) # CategoryOf(cat, lines[i])}

(* The positions whose line is the first of its category: the keys of groups,
   in the order in which they are met.                                     *)
Openings(cat, lines) ==
  {i \in DOMAIN lines : \A j \in 1..(i-1) : CategoryOf(cat, lines[j]) # CategoryOf(cat, lines[i])}

(* groups[c] *)
Group(cat, lines, c) == {i \in DOMAIN lines : CategoryOf(cat, lines[i]) = c}

(* The section of one category.  The supplier named as awarded is the
   catalogue's first, whoever the order went to.                           *)
Section(cat, lines, c) ==
  LET sum == SumTotals(lines, Group(cat, lines, c))
      markup == OpeningMarkup(QuadrantOf(cat, c))
      opening == sum * 2 * (100 + markup)
      suppliers == IF c \in DOMAIN cat.suppliers THEN cat.suppliers[c] ELSE <<>>
  IN [category |-> c, lines |-> Group(cat, lines, c), quadrant |-> QuadrantOf(cat, c),
      considered |-> suppliers,
      awarded |-> IF suppliers = <<>> THEN "nobody" ELSE suppliers[1],
      opening |-> opening, counter |-> sum * (200 + markup), final |-> sum * 200,
      savings |-> opening - sum * 200]

(* _build_negotiations: a section for each category, at the position where
   the category opens, which gives the sections their order.               *)
Report(cat, lines) ==
  [i \in Openings(cat, lines) |-> Section(cat, lines, CategoryOf(cat, lines[i]))]

SumOf(field, report) == SumFunction([i \in DOMAIN report |-> report[i][field]])

(* The last row of _summary_table: the rows above it are the sections', but
   the amount awarded is the order's.                                      *)
SummaryTotal(report, total) ==
  [opening |-> SumOf("opening", report), awarded |-> total,
   savings |-> SumOf("opening", report) - total]
=============================================================================
