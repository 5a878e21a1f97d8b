------------------------------ MODULE MCRestApi ------------------------------
EXTENDS RestApi
==============================================================================
