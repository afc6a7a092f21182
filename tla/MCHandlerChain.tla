--------------------------- MODULE MCHandlerChain ---------------------------
(* Model checking of HandlerChain: tracing outside and inside of the         *)
(* retries, metrics outside of everything.                                   *)
EXTENDS HandlerChain

MCChains == {<< <<"otel", "retry">>, <<"otel">> >>,
             << <<"prometheus", "retry">>, <<"prometheus", "otel">> >>,
             << <<"retry", "otel">>, <<>> >>}
=============================================================================
