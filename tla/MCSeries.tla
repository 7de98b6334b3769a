------------------------------ MODULE MCSeries ------------------------------
EXTENDS SeriesAccess

CONSTANTS w1, w2, v1
=============================================================================
