----------------------------- MODULE MCHttpFetch -----------------------------
EXTENDS HttpFetch
CONSTANTS s1, s2, p, out
==============================================================================
