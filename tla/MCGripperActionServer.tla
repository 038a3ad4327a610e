----------------------- MODULE MCGripperActionServer -----------------------
EXTENDS GripperActionServer
CONSTANTS Home, Move, Grasp, Open, Close, TooWide

MCTask   == [g \in Goals |-> IF g = Home THEN "kHoming" ELSE IF g = Move THEN "kMove"
                             ELSE IF g = Grasp THEN "kGrasp" ELSE "kGripperCommand"]
MCTarget == [g \in Goals |-> IF g \in {Home, Open} THEN MaxWidth
                             ELSE IF g = TooWide THEN MaxWidth + 1
                             ELSE IF g = Move THEN 1 ELSE 0]
=============================================================================
