---------------------------- MODULE MCConnection ----------------------------
(* Small applications for Connection: the calls their callbacks make. *)
EXTENDS Connection

NoCalls == {<<>>}

\* Wait for more, answer, answer and close, close and answer too late, drop.
ServerPlans == {<<>>,
                <<"consume", "send">>,
                <<"consume", "send", "shutdown">>,
                <<"shutdown", "send">>,
                <<"consume", "release">>}

\* A server that answers, or closes when it has answered.
AnswerPlans == {<<>>, <<"consume", "send">>, <<"consume", "send", "shutdown">>}

GreetingPlans == {<<>>, <<"send">>, <<"sendNothing">>, <<"release">>}
EnablePlans == {<<>>, <<"enable">>}

\* After every event: nothing, an answer, or the end.
EventCalls == {<<>>, <<"send">>, <<"release">>}
NudgePlans == {<<>>, <<"sendNothing">>}
=============================================================================
