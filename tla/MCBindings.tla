----------------------------- MODULE MCBindings -----------------------------
(* An instance for TLC: one project bound, wizards that bind another,       *)
(* add its group or sync a roster, and a human who moves the project        *)
(* to the other bot, swaps the bots or breaks the file.                     *)
EXTENDS Bindings

CONSTANTS p1, p2, b1, b2, g1, g2

Active(p, b, g) == [project |-> p, bot |-> b, group |-> g, rev |-> None]
Doc(bindings) == [bots |-> {b1, b2}, groups |-> {g1, g2}, bindings |-> bindings]
One == Doc({Active(p1, b1, g1)})
Swapped == Doc({Active(p1, b2, g1), Active(p2, b1, g2)})

Moved == Doc({Active(p1, b2, g1)})

MCFirstDocs == {One}
MCHandDocs == {Broken, Moved, Swapped}
AJob(kind, p, b, g) == [kind |-> kind, project |-> p, bot |-> b, group |-> g]
MCJobs == {AJob("bind", p2, b2, g2), AJob("sync", p1, b1, g1),
           AJob("group add", p2, b2, g2)}
=============================================================================
