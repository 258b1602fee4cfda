SPECIFICATION ThrottlerSpec
CONSTANTS
  Throttlers <- ShortAndMedium
  Decorated <- Routes
  MaxHits = 2
  MaxRateTime = 1
INVARIANT WebhookIsNotThrottled
CHECK_DEADLOCK FALSE
