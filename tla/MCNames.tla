------------------------------- MODULE MCNames -------------------------------
EXTENDS MCProvisioning, ProvisioningNames
=============================================================================
