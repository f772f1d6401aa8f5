------------------------------ MODULE MCRetry ------------------------------
\* Retry with small options; a Duration has four bits.
EXTENDS Retry

AllOptions ==
    [attempts : {-1, 0, 1, 3}, delay : {-1, 0, 1, 3}, backoff : {0, 1, 2, 5},
     jitter : {0, 1, 2, 3}, maxDelay : {0, 2, 5}, maxDuration : BOOLEAN]
=============================================================================
