---------------------------- MODULE MCMembership -----------------------------
EXTENDS MCProvisioning, ProvisioningHistory
=============================================================================
