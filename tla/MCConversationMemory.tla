------------------------ MODULE MCConversationMemory ------------------------
EXTENDS ConversationMemory, TLC

CONSTANTS s1, s2

=============================================================================
