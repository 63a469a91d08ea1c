--------------------------- MODULE MCDeployApply ---------------------------
(* Instances of DeployApply.                                               *)
EXTENDS DeployApply

CONSTANTS p1, p2, f, m, n

Asks(base, migrations, files, rehearse) ==
  [base |-> base, migrations |-> migrations, files |-> files, rehearse |-> rehearse]

Auto(migrations, files) == Asks("current", migrations, files, "auto")

Two(one, other) == [p \in Calls |-> IF p = p1 THEN one ELSE other]

\* Two calls share content, or migrations, or neither; one names the release it was
\* written for; one does not rehearse.
SomeSpecs ==
  {Two(Auto({}, {f}), Auto({m}, {f})),
   Two(Auto({m}, {f}), Auto({n}, {f})),
   Two(Auto({m}, {}), Auto({m}, {})),
   Two(Auto({m}, {}), Auto({m, n}, {})),
   Two(Auto({}, {}), Asks("pinned", {m}, {f}, "auto")),
   Two(Auto({m}, {f}), Asks("pinned", {n}, {f}, "auto"))}
  \cup {Two(Auto({m}, {}), Asks("current", {n}, {}, how)) : how \in {"disabled", "reviewed", "ci"}}
============================================================================
