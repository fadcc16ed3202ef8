---------------------------- MODULE MCAuditBridge ---------------------------
(* Two endpoints that both want every violation; the two rows of k2 are    *)
(* one finding in two states.                                              *)
EXTENDS AuditBridge

Rows == {Row("k1", "block", 0, FALSE), Row("k2", "drift", High, FALSE),
         Row("k2", "drift", High, TRUE)}
TwoHooks == <<"w1", "w2">>
AllHigh == [h \in Hooks |-> High]
AllThree == [h \in Hooks |-> {"block", "drift", "guardrail"}]
=============================================================================
