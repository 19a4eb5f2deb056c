-------------------------- MODULE AuthorizationMC --------------------------
EXTENDS Authorization
=============================================================================
