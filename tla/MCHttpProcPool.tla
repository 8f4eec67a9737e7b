--------------------------- MODULE MCHttpProcPool ---------------------------
(* Two request processors, three connections: the third connection can    *)
(* only be served after a processor has exited and been reaped.           *)
EXTENDS HttpProcPool

MCHMax == 2
MCMaxConns == 3
MCKeepaliveMax == 2

\* Keepalive on; a request carries no payload or one token of it, and a
\* read returns up to three tokens: a header, its payload and the next
\* pipelined header.  A client writes up to two requests.
MCKeepaliveTimeout == 1
MCHdrBufsize == 3
MCPayloadLens == {0, 1}
MCReqsPerConn == 2

\* The first connection's client writes; the other two stay silent.
MCClients == {1}

=============================================================================
