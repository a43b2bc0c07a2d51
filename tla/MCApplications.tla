---------------------------- MODULE MCApplications ----------------------------
\* The board application, the exchange, the SIC/XE simulator and the algorithm
\* assignments, separate programs: a behaviour is one of one of them.
EXTENDS MCBoard, Exchange, MCSicShell, MCAssignments

VARIABLE program

\* Half a coin back, a quarter and a half of one: 3, 1.5 and 3 KRW.
SomeAmounts == {-2, 1, 2}
SomeAreas == {-1, 2}

ApplicationsInit ==
  /\ program \in {"board", "exchange", "sicsim", "assignments"}
  /\ BoardInit /\ ExchangeInit /\ AssignmentsInit
  /\ IF program = "sicsim" THEN SicInit ELSE SicInit /\ files = CHOOSE d \in SomeFiles : TRUE
ApplicationsNext ==
  \/ program = "board" /\ BoardNext /\ UNCHANGED <<program, exchangeVars, sicVars, assignmentVars>>
  \/ program = "exchange" /\ ExchangeNext /\ UNCHANGED <<program, boardVars, sicVars, assignmentVars>>
  \/ program = "sicsim" /\ SicNext /\ UNCHANGED <<program, boardVars, exchangeVars, assignmentVars>>
  \/ program = "assignments" /\ AssignmentsNext /\ UNCHANGED <<program, boardVars, exchangeVars, sicVars>>
ApplicationsSpec ==
  ApplicationsInit
  /\ [][ApplicationsNext]_<<program, boardVars, exchangeVars, sicVars, assignmentVars>>

BrowserSymmetry == Permutations(Browsers)
=============================================================================
