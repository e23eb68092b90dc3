--------------------------- MODULE MCProtoSession ---------------------------
EXTENDS ProtoSession

AllKinds == {"publish", "subscribe", "send"}

=============================================================================
