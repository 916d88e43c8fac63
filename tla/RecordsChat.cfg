SPECIFICATION Spec
INVARIANT OnlyChatIsChat
CHECK_DEADLOCK FALSE
