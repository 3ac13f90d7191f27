-------------------------- MODULE MCVisitLifecycle --------------------------
\* Instances of VisitLifecycle for TLC.
EXTENDS VisitLifecycle, TLC

CONSTANTS v1, v2, n1, n2, n3, i1, i2, w1, w2

Single == {<<v1>>}
OneTitle == [v \in Visits |-> "besog"]
CarOnly == {{"car"}}
CarOrNothing == {{}, {"car"}}
AllHandlers == DOMAIN Target \cup {"UploadVisitImage", "UploadAssetImage"}
Posts == {"CreateVisitResponse"}
OnTheWay == {"CreateVisitResponse", "CompleteVisitResponse", "ReviewedVisit"}
StatusHandlers == DOMAIN Target
Nothing == {{}}
Symmetry == Permutations({n1, n2, n3} \cap Names) \cup Permutations({i1, i2} \cap Images)
            \cup Permutations({w1, w2} \cap Workers)
=============================================================================
